---- MODULE Spec2Model ----
(***************************************************************************)
(* Model of the memory-backed block storage layer of xfsprogs:             *)
(*   libxfs/xfile.c   - the pool of memfd backing files and the partitions *)
(*                      ("xfiles") carved out of them;                     *)
(*   libxfs/buf_mem.c - the buffer-cache adapter ("xmbuf") that maps pages *)
(*                      of one partition into xfs_buf objects.             *)
(*                                                                         *)
(* The operating system is modelled by what the calls do to a sparse file: *)
(* a length, the bytes that are not zero, and the pages that are           *)
(* allocated.  Resource limits make the calls fail the way they do on a    *)
(* real system: the file size limit (EFBIG), the descriptor limit (EMFILE) *)
(* and the memory limit (ENOMEM).                                          *)
(*                                                                         *)
(* TLC's integers are 32 bits wide, so the 64-bit types of the code        *)
(* (loff_t, uint64_t, size_t) are modelled WORD_BITS wide and int is       *)
(* modelled INT_BITS wide; the conversions between signed and unsigned     *)
(* keep their wrap-around.                                                 *)
(***************************************************************************)
EXTENDS Integers, Sequences, FiniteSets, TLC

\* ------------------------------------------------------------------ bounds
\* Number of struct xfile objects (and of xfs_buftarg objects) that can be
\* alive at once: kmalloc fails with ENOMEM beyond it.
MaxXfile == 3
\* Number of buffers the cache of the targets can hold at once.
MaxBuf == 2
\* Number of calls of one run.
MaxCalls == 4

\* Descriptor limit of the process: memfd_create and its fallbacks fail with
\* EMFILE beyond it.
MaxFcb == MaxXfile

\* ------------------------------------------------------- program constants
PAGE_SIZE == 4096
BBSHIFT == 9
BBSIZE == 2 ^ BBSHIFT

WORD_BITS == 30
INT_BITS == 15
WORD_MOD == 2 ^ WORD_BITS
LLONG_MAX == 2 ^ (WORD_BITS - 1) - 1
INT_MAX == 2 ^ (INT_BITS - 1) - 1

\* File size limit of the process (RLIMIT_FSIZE): ftruncate beyond it fails
\* with EFBIG, pwrite at or beyond it fails with EFBIG and is short before it.
FSIZE_MAX == MaxXfile * PAGE_SIZE

\* errno values the model tells apart
ENOMEM == "ENOMEM"
EFBIG == "EFBIG"
E2BIG == "E2BIG"
EINVAL == "EINVAL"
EMFILE == "EMFILE"

\* ------------------------------------------------------------- arithmetic
Min(a, b) == IF a < b THEN a ELSE b
Max(a, b) == IF a > b THEN a ELSE b

\* Conversion to the unsigned word (uint64_t, size_t) and to the signed word
\* (loff_t, off_t, xfs_daddr_t).
ToU64(x) == x % WORD_MOD
ToS64(x) == LET u == x % WORD_MOD IN IF u > LLONG_MAX THEN u - WORD_MOD ELSE u

\* roundup_64(x, y): x += y - 1; do_div(x, y); return x * y, in uint64_t.
roundup_64(x, y) == ToU64((ToU64(x + y - 1) \div y) * y)

BBTOB(bbs) == bbs * BBSIZE

\* --------------------------------------------------------- sparse file (OS)
\* A file is [size, data, alloc]: data maps the offsets whose byte is not
\* zero to that byte, alloc is the set of allocated page numbers.
EmptyData == [o \in {} |-> 0]
EmptyFile == [size |-> 0, data |-> EmptyData, alloc |-> {}]

ByteAt(file, o) == IF o \in DOMAIN file.data THEN file.data[o] ELSE 0

PageOf(o) == o \div PAGE_SIZE

\* ftruncate(fd, len): [ok, file]
Ftruncate(file, len) ==
    IF len < 0 THEN [ok |-> FALSE, errno |-> EINVAL, file |-> file]
    ELSE IF len > FSIZE_MAX THEN [ok |-> FALSE, errno |-> EFBIG, file |-> file]
    ELSE [ok |-> TRUE, errno |-> "",
          file |-> [size |-> len,
                    data |-> [o \in {p \in DOMAIN file.data : p < len}
                                  |-> file.data[o]],
                    alloc |-> {p \in file.alloc : p * PAGE_SIZE < len}]]

\* pwrite(fd, buf, count, off): [n, file]; n is the return value, -1 an error.
Pwrite(file, buf, off) ==
    LET count == Len(buf)
        n == IF off < 0 THEN -1
             ELSE IF count = 0 THEN 0
             ELSE IF off >= FSIZE_MAX THEN -1
             ELSE Min(count, FSIZE_MAX - off)
        written == IF n > 0 THEN off .. (off + n - 1) ELSE {}
        keep == (DOMAIN file.data \ written)
                    \cup {o \in written : buf[o - off + 1] # 0}
    IN  [n |-> n,
         errno |-> IF n >= 0 THEN "" ELSE IF off < 0 THEN EINVAL ELSE EFBIG,
         file |-> IF n <= 0 THEN file
                  ELSE [size |-> Max(file.size, off + n),
                        data |-> [o \in keep |->
                                    IF o \in written THEN buf[o - off + 1]
                                    ELSE file.data[o]],
                        alloc |-> file.alloc \cup {PageOf(o) : o \in written}]]

\* pread(fd, buf, count, off): [n, out]; short at the end of the file.
Pread(file, count, off) ==
    LET n == IF off < 0 THEN -1
             ELSE Max(0, Min(count, file.size - off))
    IN  [n |-> n,
         errno |-> IF n >= 0 THEN "" ELSE EINVAL,
         out |-> [i \in 1 .. Max(n, 0) |-> ByteAt(file, off + i - 1)]]

\* fallocate(fd, FALLOC_FL_PUNCH_HOLE | FALLOC_FL_KEEP_SIZE, off, len): the
\* bytes of the range read as zero afterwards, the pages wholly inside it are
\* freed, the length stays.
PunchHole(file, off, len) ==
    IF off < 0 \/ len <= 0 THEN file
    ELSE [size |-> file.size,
          data |-> [o \in {p \in DOMAIN file.data : p < off \/ p >= off + len}
                        |-> file.data[o]],
          alloc |-> {p \in file.alloc :
                        ~(off <= p * PAGE_SIZE /\ (p + 1) * PAGE_SIZE <= off + len)}]

ENXIO == "ENXIO"

\* lseek(fd, off, SEEK_DATA): [pos, errno].  The data of a memfd are its
\* allocated pages: the result is off if off lies in one, the start of the
\* next one otherwise, and ENXIO if there is none before the end of the file.
SeekData(file, off) ==
    LET pages == {p \in file.alloc :
                    (p + 1) * PAGE_SIZE > off /\ p * PAGE_SIZE < file.size}
    IN  IF off < 0 THEN [pos |-> -1, errno |-> EINVAL]
        ELSE IF off >= file.size \/ pages = {} THEN [pos |-> -1, errno |-> ENXIO]
        ELSE LET q == CHOOSE p \in pages : \A r \in pages : p <= r
             IN  [pos |-> Max(off, q * PAGE_SIZE), errno |-> ""]

\* lseek(fd, off, SEEK_HOLE): [pos, errno].  The result is off if off lies in
\* a page that is not allocated, the start of the next such page otherwise,
\* and the end of the file if there is none.
SeekHole(file, off) ==
    LET last_page == PageOf(Max(file.size, 1) - 1)
        holes == {p \in PageOf(Max(off, 0)) .. last_page : p \notin file.alloc}
    IN  IF off < 0 THEN [pos |-> -1, errno |-> EINVAL]
        ELSE IF off >= file.size THEN [pos |-> -1, errno |-> ENXIO]
        ELSE IF holes = {} THEN [pos |-> file.size, errno |-> ""]
        ELSE LET q == CHOOSE p \in holes : \A r \in holes : p <= r
             IN  [pos |-> Max(off, q * PAGE_SIZE), errno |-> ""]

\* fstat(fd).st_blocks: the allocated pages in units of 512 bytes.
StBlocks(file) == Cardinality(file.alloc) * (PAGE_SIZE \div 512)


\* ------------------------------------------------------------------- state
VARIABLES
    fcbs,       \* struct xfile_fcb objects by descriptor: open, refcount, file
    fcb_list,   \* the shared pool list, in list order
    xfiles,     \* struct xfile objects: live, fcb, partition_pos, maxbytes
    hist,       \* per descriptor, since it was last opened: the partitions
                \* acquired from it, released to it, the close() calls on it,
                \* and whether it was put on the pool list
    last,       \* the last call and what it returned
    ncalls,     \* the number of calls so far
    btps,       \* struct xfs_buftarg objects: live, bt_xfile
    bufs,       \* struct xfs_buf objects of the targets' caches
    vmas,       \* the mappings of the process: addr, len, fd, off
    blog,       \* per xfs_buf, since it was last allocated: the mapping that
                \* xmbuf_map_page made, the munmap calls on it, b_addr when
                \* the buffer was freed, whether the client stored through
                \* b_addr, the runs of the verifier on it and the runs of
                \* xmbuf_stale on it
    fcb_mutex,  \* the thread that holds the pool mutex, 0 if none
    thr,        \* per thread: where it is in xfile_create or xfile_destroy
                \* and the locals of the call
    racy,       \* the kinds of access to the pool list and to reference
                \* counts that were made without holding fcb_mutex
    bli         \* the log items linked to a buffer, b_log_item first, and
                \* where xmbuf_trans_bdetach is

xvars == <<fcbs, fcb_list, xfiles, hist>>
bvars == <<btps, bufs, vmas, blog>>
\* the state of the calls that are modelled step by step
cvars == <<fcb_mutex, thr, racy, bli>>
vars == <<fcbs, fcb_list, xfiles, hist, last, ncalls, btps, bufs, vmas, blog,
          fcb_mutex, thr, racy, bli>>

FcbIds == 1 .. MaxFcb
XfileIds == 1 .. MaxXfile

NoFcb == [open |-> FALSE, refcount |-> 0, file |-> EmptyFile]
NoXfile == [live |-> FALSE, fcb |-> 0, partition_pos |-> 0, maxbytes |-> 0]
\* The mechanisms of xfile_create_fd, in the order it tries them:
\* memfd_create with MFD_NOEXEC_SEAL, memfd_create without it, O_TMPFILE in
\* /dev/shm, O_TMPFILE in /tmp, mkostemp.
Mechanisms == <<"memfd_noexec_seal", "memfd", "tmpfile_dev_shm", "tmpfile_tmp",
                "mkostemp">>
\* errno of a mechanism the system does not provide
ENOSYS == "ENOSYS"

\* What a call finds in the system: the mechanisms that work, whether malloc
\* succeeds, and the descriptors on which fstat fails.
Env(avail, malloc, badstat) ==
    [avail |-> avail, malloc |-> malloc, badstat |-> badstat]
AllMechanisms == {Mechanisms[i] : i \in 1 .. Len(Mechanisms)}
DefaultEnv == Env(AllMechanisms, TRUE, {})

NoCall == [op |-> "none", xf |-> 0, pos |-> 0, count |-> 0, buf |-> <<>>,
           ret |-> "", out |-> <<>>, val |-> 0, env |-> DefaultEnv]
Call(op, xf, pos, count, buf, ret, out, val) ==
    [op |-> op, xf |-> xf, pos |-> pos, count |-> count, buf |-> buf,
     ret |-> ret, out |-> out, val |-> val, env |-> DefaultEnv]

NoHist == [acquired |-> 0, released |-> 0, closed |-> 0, shared |-> FALSE]

\* The pool as the helpers below pass it around; how is the mechanism that the
\* last xfile_create_fd of the call used.
Pool(f, l, h) == [fcbs |-> f, fcb_list |-> l, hist |-> h, env |-> DefaultEnv,
                  how |-> ""]
CurPool == Pool(fcbs, fcb_list, hist)

InList(list, f) == \E i \in 1 .. Len(list) : list[i] = f
ListDel(list, f) == SelectSeq(list, LAMBDA g : g # f)

\* ------------------------------------------------------------ xfile_fcb_*
\* Mutant of xfile_create_fd: only the two memfd_create calls are tried.
xfile_create_fd_NoFallback(pool) ==
    LET free == {f \in FcbIds : ~pool.fcbs[f].open}
        works == {i \in 1 .. 2 : Mechanisms[i] \in pool.env.avail}
    IN  IF free = {} THEN [fd |-> -1, how |-> "", errno |-> EMFILE]
        ELSE IF works = {} THEN [fd |-> -1, how |-> "", errno |-> ENOSYS]
        ELSE [fd |-> CHOOSE g \in free : \A h \in free : g <= h,
              how |-> Mechanisms[CHOOSE i \in works : \A k \in works : i <= k],
              errno |-> ""]

\* xfile_create_fd(description): [fd, how, errno].  Every mechanism fails when
\* the process has no descriptor left; otherwise the first one that works
\* gives the lowest free descriptor.
xfile_create_fd(pool) ==
    LET free == {f \in FcbIds : ~pool.fcbs[f].open}
        works == {i \in 1 .. Len(Mechanisms) : Mechanisms[i] \in pool.env.avail}
    IN  IF free = {} THEN [fd |-> -1, how |-> "", errno |-> EMFILE]
        ELSE IF works = {} THEN [fd |-> -1, how |-> "", errno |-> ENOSYS]
        ELSE [fd |-> CHOOSE g \in free : \A h \in free : g <= h,
              how |-> Mechanisms[CHOOSE i \in works : \A k \in works : i <= k],
              errno |-> ""]

\* xfile_fcb_create(description, fcbp): a file of length 0, refcount 1, linked
\* only to itself; the descriptor is closed again if malloc fails.
xfile_fcb_create(pool) ==
    LET Opened(cf) ==
            IF cf.fd < 0
            THEN [error |-> cf.errno, fcb |-> 0, pool |-> pool]
            ELSE IF ~pool.env.malloc
            THEN [error |-> ENOMEM, fcb |-> 0, pool |-> pool]
            ELSE [error |-> "", fcb |-> cf.fd,
                  pool |-> [pool EXCEPT
                      !.fcbs[cf.fd] = [open |-> TRUE, refcount |-> 1,
                                       file |-> EmptyFile],
                      !.hist[cf.fd] = [NoHist EXCEPT !.acquired = 1],
                      !.how = cf.how]]
    IN  Opened(xfile_create_fd(pool))

\* close(fcb->fd); free(fcb)
CloseFcb(pool, f) ==
    [pool EXCEPT !.fcbs[f] = NoFcb, !.hist[f].closed = @ + 1]

\* Mutant of TailShrink: the file is cut at the partition's start whether or
\* not the partition is the last one of it.
TailShrink_NoTailTest(file, pos, len) == Ftruncate(file, pos).file

\* The tail test and shrink of xfile_fcb_irele: the partition ends exactly at
\* the file's length.
TailShrink(file, pos, len) ==
    IF ToU64(file.size) = ToU64(pos + len)
    THEN Ftruncate(file, pos).file
    ELSE file

\* fstat(fcb->fd, &statbuf) == 0
FstatOk(pool, f) == f \notin pool.env.badstat

\* Mutant of FcbRelease: the reference count is tested before it is
\* decremented (refcount-- == 0).
FcbRelease_PostDec(pool, f, pos, len) ==
    IF ~InList(pool.fcb_list, f) THEN CloseFcb(pool, f)
    ELSE IF pool.fcbs[f].refcount = 0
    THEN CloseFcb([pool EXCEPT !.fcb_list = ListDel(pool.fcb_list, f)], f)
    ELSE IF len > 0
    THEN [pool EXCEPT
            !.fcbs[f].refcount = @ - 1,
            !.fcbs[f].file = IF FstatOk(pool, f) THEN TailShrink(@, pos, len)
                             ELSE @]
    ELSE [pool EXCEPT !.fcbs[f].refcount = @ - 1]

\* Mutant of FcbRelease: the last reference closes the file but leaves it on
\* the pool list (no list_del).
FcbRelease_NoListDel(pool, f, pos, len) ==
    IF ~InList(pool.fcb_list, f) THEN CloseFcb(pool, f)
    ELSE IF pool.fcbs[f].refcount - 1 = 0
    THEN CloseFcb(pool, f)
    ELSE IF len > 0
    THEN [pool EXCEPT
            !.fcbs[f].refcount = @ - 1,
            !.fcbs[f].file = IF FstatOk(pool, f) THEN TailShrink(@, pos, len)
                             ELSE @]
    ELSE [pool EXCEPT !.fcbs[f].refcount = @ - 1]

\* The body of xfile_fcb_irele(fcb, pos, len).
FcbRelease(pool, f, pos, len) ==
    IF ~InList(pool.fcb_list, f) THEN CloseFcb(pool, f)
    ELSE IF pool.fcbs[f].refcount - 1 = 0
    THEN CloseFcb([pool EXCEPT !.fcb_list = ListDel(pool.fcb_list, f)], f)
    ELSE IF len > 0
    THEN [pool EXCEPT
            !.fcbs[f].refcount = @ - 1,
            !.fcbs[f].file = IF FstatOk(pool, f) THEN TailShrink(@, pos, len)
                             ELSE @]
    ELSE [pool EXCEPT !.fcbs[f].refcount = @ - 1]

\* xfile_fcb_irele(fcb, pos, len)
xfile_fcb_irele(pool, f, pos, len) ==
    FcbRelease([pool EXCEPT !.hist[f].released = @ + 1], f, pos, len)

\* Mutant of FcbScan: the member that fits is handed out without taking a
\* reference on it (no fcb->refcount++).
RECURSIVE FcbScan_NoRef(_, _, _)
FcbScan_NoRef(pool, i, maxbytes) ==
    IF i > Len(pool.fcb_list) THEN [found |-> FALSE, pos |-> 0, fcb |-> 0,
                                    pool |-> pool]
    ELSE LET f == pool.fcb_list[i]
             pos == ToS64(roundup_64(pool.fcbs[f].file.size, PAGE_SIZE))
             tr == Ftruncate(pool.fcbs[f].file, ToS64(pos + maxbytes))
         IN  IF ~FstatOk(pool, f) \/ ~tr.ok
             THEN FcbScan_NoRef(pool, i + 1, maxbytes)
             ELSE [found |-> TRUE, pos |-> pos, fcb |-> f,
                   pool |-> [pool EXCEPT !.fcbs[f].file = tr.file,
                                         !.hist[f].acquired = @ + 1]]

\* Mutant of FcbScan: the scan goes on past a member that fits and takes the
\* last one of the list that does.
RECURSIVE FcbScan_LastFit(_, _, _)
FcbScan_LastFit(pool, i, maxbytes) ==
    IF i > Len(pool.fcb_list) THEN [found |-> FALSE, pos |-> 0, fcb |-> 0,
                                    pool |-> pool]
    ELSE LET f == pool.fcb_list[i]
             pos == ToS64(roundup_64(pool.fcbs[f].file.size, PAGE_SIZE))
             tr == Ftruncate(pool.fcbs[f].file, ToS64(pos + maxbytes))
             later == FcbScan_LastFit(pool, i + 1, maxbytes)
         IN  IF ~FstatOk(pool, f) \/ ~tr.ok \/ later.found
             THEN later
             ELSE [found |-> TRUE, pos |-> pos, fcb |-> f,
                   pool |-> [pool EXCEPT !.fcbs[f].file = tr.file,
                                         !.fcbs[f].refcount = @ + 1,
                                         !.hist[f].acquired = @ + 1]]

\* Mutant of FcbScan: the partition starts at the file's length as fstat
\* gives it, not rounded up to a page.
RECURSIVE FcbScan_NoRound(_, _, _)
FcbScan_NoRound(pool, i, maxbytes) ==
    IF i > Len(pool.fcb_list) THEN [found |-> FALSE, pos |-> 0, fcb |-> 0,
                                    pool |-> pool]
    ELSE LET f == pool.fcb_list[i]
             pos == pool.fcbs[f].file.size
             tr == Ftruncate(pool.fcbs[f].file, ToS64(pos + maxbytes))
         IN  IF ~FstatOk(pool, f) \/ ~tr.ok
             THEN FcbScan_NoRound(pool, i + 1, maxbytes)
             ELSE [found |-> TRUE, pos |-> pos, fcb |-> f,
                   pool |-> [pool EXCEPT !.fcbs[f].file = tr.file,
                                         !.fcbs[f].refcount = @ + 1,
                                         !.hist[f].acquired = @ + 1]]

\* The list_for_each_entry loop of xfile_fcb_find from list index i on: the
\* first member whose fstat succeeds and whose file extends to pos + maxbytes
\* wins.
RECURSIVE FcbScan(_, _, _)
FcbScan(pool, i, maxbytes) ==
    IF i > Len(pool.fcb_list) THEN [found |-> FALSE, pos |-> 0, fcb |-> 0,
                                    pool |-> pool]
    ELSE LET f == pool.fcb_list[i]
             pos == ToS64(roundup_64(pool.fcbs[f].file.size, PAGE_SIZE))
             tr == Ftruncate(pool.fcbs[f].file, ToS64(pos + maxbytes))
         IN  IF ~FstatOk(pool, f) \/ ~tr.ok
             THEN FcbScan(pool, i + 1, maxbytes)
             ELSE [found |-> TRUE, pos |-> pos, fcb |-> f,
                   pool |-> [pool EXCEPT !.fcbs[f].file = tr.file,
                                         !.fcbs[f].refcount = @ + 1,
                                         !.hist[f].acquired = @ + 1]]

\* Mutant of FcbNewShared: the new memfd is put on the list without being
\* extended to maxbytes.
FcbNewShared_NoExtend(pool, maxbytes) ==
    LET Created(cr) ==
            IF cr.error # "" THEN [error |-> cr.error, pos |-> 0, fcb |-> 0,
                                   pool |-> pool]
            ELSE [error |-> "", pos |-> 0, fcb |-> cr.fcb,
                  pool |-> [cr.pool EXCEPT
                      !.fcb_list = Append(@, cr.fcb),
                      !.hist[cr.fcb].shared = TRUE]]
    IN  Created(xfile_fcb_create(pool))

\* Mutant of FcbNewShared: when the new file cannot be extended it is added to
\* the list all the same instead of being released.
FcbNewShared_KeepOnError(pool, maxbytes) ==
    LET Created(cr) ==
            IF cr.error # "" THEN [error |-> cr.error, pos |-> 0, fcb |-> 0,
                                   pool |-> pool]
            ELSE LET tr == Ftruncate(cr.pool.fcbs[cr.fcb].file,
                                     ToS64(maxbytes))
                 IN  [error |-> tr.errno, pos |-> 0,
                      fcb |-> IF tr.ok THEN cr.fcb ELSE 0,
                      pool |-> [cr.pool EXCEPT
                               !.fcbs[cr.fcb].file = tr.file,
                               !.fcb_list = Append(@, cr.fcb),
                               !.hist[cr.fcb].shared = TRUE]]
    IN  Created(xfile_fcb_create(pool))

\* The tail of xfile_fcb_find: open a new memfd, extend it, add it to the list.
FcbNewShared(pool, maxbytes) ==
    LET Created(cr) ==
            IF cr.error # "" THEN [error |-> cr.error, pos |-> 0, fcb |-> 0,
                                   pool |-> pool]
            ELSE LET tr == Ftruncate(cr.pool.fcbs[cr.fcb].file,
                                     ToS64(maxbytes))
                 IN  IF ~tr.ok
                     THEN [error |-> tr.errno, pos |-> 0, fcb |-> 0,
                           pool |-> xfile_fcb_irele(cr.pool, cr.fcb, 0,
                                                    maxbytes)]
                     ELSE [error |-> "", pos |-> 0, fcb |-> cr.fcb,
                           pool |-> [cr.pool EXCEPT
                               !.fcbs[cr.fcb].file = tr.file,
                               !.fcb_list = Append(@, cr.fcb),
                               !.hist[cr.fcb].shared = TRUE]]
    IN  Created(xfile_fcb_create(pool))

\* Mutant of xfile_fcb_find: maxbytes == 0 is not taken apart, the caller
\* gets a range of a pool member.
xfile_fcb_find_NoPrivate(pool, maxbytes) ==
    LET rounded == roundup_64(maxbytes, PAGE_SIZE)
        sc == FcbScan(pool, 1, rounded)
    IN  IF sc.found
        THEN [error |-> "", pos |-> sc.pos, fcb |-> sc.fcb, pool |-> sc.pool]
        ELSE FcbNewShared(pool, rounded)

\* xfile_fcb_find(description, maxbytes, posp, fcbp)
xfile_fcb_find(pool, maxbytes) ==
    IF maxbytes = 0
    THEN LET cr == xfile_fcb_create(pool)
         IN  [error |-> cr.error, pos |-> 0, fcb |-> cr.fcb, pool |-> cr.pool]
    ELSE LET rounded == roundup_64(maxbytes, PAGE_SIZE)
             sc == FcbScan(pool, 1, rounded)
         IN  IF sc.found
             THEN [error |-> "", pos |-> sc.pos, fcb |-> sc.fcb, pool |-> sc.pool]
             ELSE FcbNewShared(pool, rounded)


\* ------------------------------------------------------ inputs of the calls
\* maxbytes of xfile_create: private, less than a page, a page, two pages.
MaxbytesChoices == {0, 100, PAGE_SIZE, 2 * PAGE_SIZE}
\* pos of load, store and discard: the first byte of the first page, its last
\* byte, and a byte of the second page.
PosChoices == {0, PAGE_SIZE - 1, PAGE_SIZE + 1}
\* buf of store; count is its length.
BufChoices == {<<1>>, <<2, 3>>}
CountChoices == {Len(b) : b \in BufChoices}
\* count of discard
DiscardChoices == {2, PAGE_SIZE}
\* maxbytes of xfile_create where only the pool is exercised: private, a
\* page, the whole file size limit, more than the limit, and the largest value
\* of the type.
PoolMaxbytes == {0, PAGE_SIZE, FSIZE_MAX, FSIZE_MAX + PAGE_SIZE, WORD_MOD - 1}
\* The environments of a pool call: everything works; fstat fails on the
\* first descriptor; no mechanism gives a file.
PoolEnvChoices == {DefaultEnv, Env(AllMechanisms, TRUE, {1}),
                   Env({}, TRUE, {})}
\* The environments of a call that opens a file: everything works; a kernel
\* without MFD_NOEXEC_SEAL; one without memfd_create; one without O_TMPFILE in
\* /dev/shm either; one with mkostemp only; one where nothing works; malloc
\* failing.
FdEnvChoices == {DefaultEnv,
                 Env(AllMechanisms \ {"memfd_noexec_seal"}, TRUE, {}),
                 Env({"tmpfile_dev_shm", "tmpfile_tmp", "mkostemp"}, TRUE, {}),
                 Env({"tmpfile_tmp", "mkostemp"}, TRUE, {}),
                 Env({"mkostemp"}, TRUE, {}),
                 Env({}, TRUE, {}),
                 Env(AllMechanisms, FALSE, {})}
\* maxbytes of xfile_create where only the opening of the file is exercised
FdMaxbytes == {0, PAGE_SIZE}

\* ---------------------------------------------------------------- xfile_*
\* xfile_create(description, maxbytes, xfilep): [error, xf, pool, xfiles]
XfileCreate(pool, xfs, maxbytes) ==
    LET free == {x \in XfileIds : ~xfs[x].live}
    IN  IF free = {}
        THEN [error |-> ENOMEM, xf |-> 0, pool |-> pool, xfiles |-> xfs]
        ELSE LET x == CHOOSE y \in free : \A z \in free : y <= z
                 Found(fr) ==
                     IF fr.error # ""
                     THEN [error |-> fr.error, xf |-> 0, pool |-> fr.pool,
                           xfiles |-> xfs]
                     ELSE [error |-> "", xf |-> x, pool |-> fr.pool,
                           xfiles |-> [xfs EXCEPT ![x] =
                                [live |-> TRUE, fcb |-> fr.fcb,
                                 partition_pos |-> fr.pos,
                                 maxbytes |-> maxbytes]]]
             IN  Found(xfile_fcb_find(pool, maxbytes))

\* xfile_destroy(xf): [pool, xfiles]
XfileDestroy(pool, xfs, x) ==
    [pool |-> xfile_fcb_irele(pool, xfs[x].fcb, xfs[x].partition_pos,
                              xfs[x].maxbytes),
     xfiles |-> [xfs EXCEPT ![x] = NoXfile]]

\* The pool as a call made in environment env finds it.
PoolIn(env) == [CurPool EXCEPT !.env = env]

xfile_create_in(env, maxbytes) ==
    \E r \in {XfileCreate(PoolIn(env), xfiles, maxbytes)} :
        /\ fcbs' = r.pool.fcbs
        /\ fcb_list' = r.pool.fcb_list
        /\ hist' = r.pool.hist
        /\ xfiles' = r.xfiles
        /\ last' = [Call("create", r.xf, 0, maxbytes, <<>>, r.error,
                         IF r.pool.how = "" THEN <<>> ELSE <<r.pool.how>>, 0)
                        EXCEPT !.env = env]

xfile_create(maxbytes) == xfile_create_in(DefaultEnv, maxbytes)

xfile_destroy_in(env, x) ==
    /\ xfiles[x].live
    /\ LET r == XfileDestroy(PoolIn(env), xfiles, x)
       IN  /\ fcbs' = r.pool.fcbs
           /\ fcb_list' = r.pool.fcb_list
           /\ hist' = r.pool.hist
           /\ xfiles' = r.xfiles
    /\ last' = [Call("destroy", x, 0, 0, <<>>, "", <<>>, 0)
                    EXCEPT !.env = env]

xfile_destroy(x) == xfile_destroy_in(DefaultEnv, x)

\* xfile_maxbytes(xf)
xfile_maxbytes(xf) ==
    IF xf.maxbytes > 0 THEN ToS64(xf.maxbytes) ELSE LLONG_MAX

\* The capacity test of xfile_load and xfile_store:
\* xfile_maxbytes(xf) - pos < count, a loff_t compared with a size_t.
OverCapacity(xf, pos, count) ==
    ToU64(ToS64(xfile_maxbytes(xf) - pos)) < count

\* xfile_load(xf, buf, count, pos): [ret, out]
LoadResult(xf, file, count, pos) ==
    IF count > INT_MAX THEN [ret |-> ENOMEM, out |-> <<>>]
    ELSE IF OverCapacity(xf, pos, count) THEN [ret |-> ENOMEM, out |-> <<>>]
    ELSE LET pr == Pread(file, count, ToS64(pos + xf.partition_pos))
         IN  IF pr.n < 0 THEN [ret |-> pr.errno, out |-> pr.out]
             ELSE IF pr.n # count THEN [ret |-> ENOMEM, out |-> pr.out]
             ELSE [ret |-> "", out |-> pr.out]

xfile_load(x, count, pos) ==
    /\ xfiles[x].live
    /\ fcbs[xfiles[x].fcb].open
    /\ LET r == LoadResult(xfiles[x], fcbs[xfiles[x].fcb].file, count, pos)
       IN  last' = Call("load", x, pos, count, <<>>, r.ret, r.out, 0)
    /\ UNCHANGED <<fcbs, fcb_list, xfiles, hist>>

\* xfile_store(xf, buf, count, pos): [ret, file]
StoreResult(xf, file, buf, pos) ==
    LET count == Len(buf)
    IN  IF count > INT_MAX THEN [ret |-> E2BIG, file |-> file]
        ELSE IF OverCapacity(xf, pos, count) THEN [ret |-> EFBIG, file |-> file]
        ELSE LET pw == Pwrite(file, buf, ToS64(pos + xf.partition_pos))
             IN  IF pw.n < 0 THEN [ret |-> pw.errno, file |-> pw.file]
                 ELSE IF pw.n # count THEN [ret |-> ENOMEM, file |-> pw.file]
                 ELSE [ret |-> "", file |-> pw.file]

xfile_store(x, buf, pos) ==
    /\ xfiles[x].live
    /\ fcbs[xfiles[x].fcb].open
    /\ LET r == StoreResult(xfiles[x], fcbs[xfiles[x].fcb].file, buf, pos)
       IN  /\ fcbs' = [fcbs EXCEPT ![xfiles[x].fcb].file = r.file]
           /\ last' = Call("store", x, pos, Len(buf), buf, r.ret, <<>>, 0)
    /\ UNCHANGED <<fcb_list, xfiles, hist>>

\* The range xfile_discard hands to fallocate.
DiscardPos(xf, pos) == pos

\* xfile_discard(xf, pos, count)
xfile_discard(x, pos, count) ==
    /\ xfiles[x].live
    /\ fcbs[xfiles[x].fcb].open
    /\ fcbs' = [fcbs EXCEPT ![xfiles[x].fcb].file =
                    PunchHole(@, DiscardPos(xfiles[x], pos), ToS64(count))]
    /\ last' = Call("discard", x, pos, count, <<>>, "", <<>>, 0)
    /\ UNCHANGED <<fcb_list, xfiles, hist>>

\* The while loop of xfile_partition_bytes, entered with the result of the
\* last lseek(SEEK_DATA).
RECURSIVE PartitionBytesLoop(_, _, _, _, _)
PartitionBytesLoop(xf, file, data, stop_pos, bytes) ==
    IF data.pos >= 0 /\ data.pos < stop_pos
    THEN LET hole == SeekHole(file, data.pos)
         IN  IF hole.pos < 0
             THEN IF hole.errno # ENXIO THEN ToU64(xf.maxbytes) ELSE bytes
             ELSE IF hole.pos >= stop_pos
             THEN ToU64(bytes + (stop_pos - data.pos))
             ELSE PartitionBytesLoop(xf, file, SeekData(file, hole.pos),
                                     stop_pos,
                                     ToU64(bytes + (hole.pos - data.pos)))
    ELSE IF data.pos < 0 /\ data.errno # ENXIO THEN ToU64(xf.maxbytes)
    ELSE bytes

\* xfile_partition_bytes(xf)
xfile_partition_bytes(xf, file) ==
    PartitionBytesLoop(xf, file, SeekData(file, xf.partition_pos),
                       ToS64(xf.partition_pos + xf.maxbytes), 0)

\* Mutant of XfileBytes: the private file is measured by its length
\* (st_size) instead of its allocated blocks.
XfileBytes_StSize(xf, file) ==
    IF xf.maxbytes > 0 THEN xfile_partition_bytes(xf, file)
    ELSE ToU64(file.size)

\* The value xfile_bytes(xf) returns.
XfileBytes(xf, file) ==
    IF xf.maxbytes > 0 THEN xfile_partition_bytes(xf, file)
    ELSE ToU64(StBlocks(file) * 2 ^ 9)

\* xfile_bytes(xf)
xfile_bytes(x) ==
    /\ xfiles[x].live
    /\ fcbs[xfiles[x].fcb].open
    /\ last' = Call("bytes", x, 0, 0, <<>>, "", <<>>,
                    XfileBytes(xfiles[x], fcbs[xfiles[x].fcb].file))
    /\ UNCHANGED <<fcbs, fcb_list, xfiles, hist>>

\* ------------------------------------------------------------ specification
XInit ==
    /\ fcbs = [f \in FcbIds |-> NoFcb]
    /\ fcb_list = <<>>
    /\ xfiles = [x \in XfileIds |-> NoXfile]
    /\ hist = [f \in FcbIds |-> NoHist]
    /\ last = NoCall
    /\ ncalls = 0

\* ------------------------------------------------------------- buf_mem.c
BtpIds == 1 .. MaxXfile
BufIds == 1 .. MaxBuf

NoBtp == [live |-> FALSE, bt_xfile |-> 0]
NoBuf == [live |-> FALSE, b_target |-> 0, b_cache_key |-> 0, b_length |-> 0,
          bm_bn |-> 0, b_flags |-> {}, b_addr |-> 0, b_error |-> 0]
NoMap == [addr |-> 0, len |-> 0]
NoLog == [map |-> NoMap, unmaps |-> <<>>, freed_addr |-> 0, stored |-> FALSE,
          verified |-> 0, discarded |-> 0]

\* The xmbuf state as the helpers below pass it around.
Bst(b, v, l) == [bufs |-> b, vmas |-> v, blog |-> l]
CurBst == Bst(bufs, vmas, blog)

\* mmap(NULL, len, PROT_READ | PROT_WRITE, MAP_SHARED, fd, off): [addr, vmas].
\* The offset must be a multiple of the page size and the length not zero; the
\* kernel picks a free address.  addr 0 is MAP_FAILED.
Mmap(maps, len, fd, off) ==
    IF len <= 0 \/ off < 0 \/ off % PAGE_SIZE # 0
    THEN [addr |-> 0, errno |-> EINVAL, vmas |-> maps]
    ELSE LET used == {v.addr : v \in maps}
             a == CHOOSE n \in 1 .. (Cardinality(maps) + 1) : n \notin used
         IN  [addr |-> a, errno |-> "",
              vmas |-> maps \cup {[addr |-> a, len |-> len, fd |-> fd,
                                   off |-> off]}]

\* munmap(addr, len): the pages of the range are unmapped.
Munmap(maps, addr, len) ==
    {v \in maps :
        ~(v.addr = addr
            /\ roundup_64(len, PAGE_SIZE) >= roundup_64(v.len, PAGE_SIZE))}

\* b_flags bits that xmbuf_map_page sets
LIBXFS_B_UPTODATE == "LIBXFS_B_UPTODATE"
LIBXFS_B_UNCHECKED == "LIBXFS_B_UNCHECKED"

\* xmbuf_map_page(bp): [error, bst]
xmbuf_map_page(bst, xfs, tgts, b) ==
    LET bp == bst.bufs[b]
        xfile == xfs[tgts[bp.b_target].bt_xfile]
        pos == ToS64(xfile.partition_pos + BBTOB(bp.b_cache_key))
        mm == Mmap(bst.vmas, BBTOB(bp.b_length), xfile.fcb, pos)
    IN  IF mm.addr = 0 THEN [error |-> mm.errno, bst |-> bst]
        ELSE [error |-> "",
              bst |-> [bst EXCEPT
                  !.bufs[b].b_addr = mm.addr,
                  !.bufs[b].b_flags = @ \cup {LIBXFS_B_UPTODATE,
                                              LIBXFS_B_UNCHECKED},
                  !.bufs[b].b_error = 0,
                  !.vmas = mm.vmas,
                  !.blog[b].map = [addr |-> mm.addr,
                                   len |-> BBTOB(bp.b_length)]]]

\* Mutant of xmbuf_unmap_page: b_addr is not cleared after munmap.
xmbuf_unmap_page_KeepAddr(bst, b) ==
    LET bp == bst.bufs[b]
    IN  [bst EXCEPT
            !.vmas = Munmap(@, bp.b_addr, BBTOB(bp.b_length)),
            !.blog[b].unmaps = Append(@, [addr |-> bp.b_addr,
                                          len |-> BBTOB(bp.b_length)])]

\* xmbuf_unmap_page(bp)
xmbuf_unmap_page(bst, b) ==
    LET bp == bst.bufs[b]
    IN  [bst EXCEPT
            !.vmas = Munmap(@, bp.b_addr, BBTOB(bp.b_length)),
            !.blog[b].unmaps = Append(@, [addr |-> bp.b_addr,
                                          len |-> BBTOB(bp.b_length)]),
            !.bufs[b].b_addr = 0]

\* Mutant of xmbuf_cache_alloc: the node is returned although xmbuf_map_page
\* failed.
xmbuf_cache_alloc_KeepUnmapped(bst, xfs, tgts, blkno, bblen, t) ==
    LET free == {b \in BufIds : ~bst.bufs[b].live}
    IN  IF free = {} THEN [node |-> 0, bst |-> bst]
        ELSE LET b == CHOOSE c \in free : \A d \in free : c <= d
                 zeroed == [bst EXCEPT
                     !.bufs[b] = [live |-> TRUE, b_target |-> t,
                                  b_cache_key |-> blkno, b_length |-> bblen,
                                  bm_bn |-> blkno, b_flags |-> {},
                                  b_addr |-> 0, b_error |-> 0],
                     !.blog[b] = NoLog]
                 mp == xmbuf_map_page(zeroed, xfs, tgts, b)
             IN  [node |-> b, bst |-> mp.bst]

\* xmbuf_cache_alloc(key): [node, bst]; node 0 is NULL.
xmbuf_cache_alloc(bst, xfs, tgts, blkno, bblen, t) ==
    LET free == {b \in BufIds : ~bst.bufs[b].live}
    IN  IF free = {} THEN [node |-> 0, bst |-> bst]
        ELSE LET b == CHOOSE c \in free : \A d \in free : c <= d
                 zeroed == [bst EXCEPT
                     !.bufs[b] = [live |-> TRUE, b_target |-> t,
                                  b_cache_key |-> blkno, b_length |-> bblen,
                                  bm_bn |-> blkno, b_flags |-> {},
                                  b_addr |-> 0, b_error |-> 0],
                     !.blog[b] = NoLog]
                 mp == xmbuf_map_page(zeroed, xfs, tgts, b)
             IN  IF mp.error # "" THEN [node |-> 0, bst |-> bst]
                 ELSE [node |-> b, bst |-> mp.bst]

\* xmbuf_cache_relse(node)
xmbuf_cache_relse(bst, b) ==
    LET un == xmbuf_unmap_page(bst, b)
    IN  [un EXCEPT !.bufs[b] = NoBuf,
                   !.blog[b].freed_addr = un.bufs[b].b_addr]

\* xmbuf_cache_bulkrelse(cache, list): [count, bst]
RECURSIVE BulkRelse(_, _, _)
BulkRelse(bst, list, count) ==
    IF list = <<>> THEN [count |-> count, bst |-> bst]
    ELSE BulkRelse(xmbuf_cache_relse(bst, Head(list)), Tail(list), count + 1)

\* Mutant of xmbuf_cache_bulkrelse: the loop stops after the first node, and
\* the length of the list is returned.
xmbuf_cache_bulkrelse_FirstOnly(bst, list) ==
    IF list = <<>> THEN [count |-> 0, bst |-> bst]
    ELSE [count |-> Len(list), bst |-> xmbuf_cache_relse(bst, Head(list))]

xmbuf_cache_bulkrelse(bst, list) ==
    IF list = <<>> THEN [count |-> 0, bst |-> bst]
    ELSE BulkRelse(bst, list, 0)

\* A set of buffers as a list, lowest first.
RECURSIVE SetToSeq(_)
SetToSeq(S) ==
    IF S = {} THEN <<>>
    ELSE LET b == CHOOSE c \in S : \A d \in S : c <= d
         IN  <<b>> \o SetToSeq(S \ {b})

\* cache_destroy(btp->bcache): the generic cache purges every node it still
\* holds through the bulkrelse callback.
cache_destroy(bst, t) ==
    xmbuf_cache_bulkrelse(bst,
        SetToSeq({b \in BufIds : bst.bufs[b].live /\ bst.bufs[b].b_target = t})).bst

\* XMBUF_BLOCKSHIFT as xmbuf_libinit sets it for pages of PAGE_SIZE bytes.
XMBUF_BLOCKSHIFT == 12

\* Mutant of xmbuf_verify_daddr: the address equal to maxbytes >> BBSHIFT is
\* accepted (<= for <).
xmbuf_verify_daddr_OffByOne(xf, daddr) ==
    ToU64(daddr) <= (xf.maxbytes \div (2 ^ BBSHIFT))

\* xmbuf_verify_daddr(btp, daddr): xfs_daddr_t compared with uint64_t.
xmbuf_verify_daddr(xf, daddr) == ToU64(daddr) < (xf.maxbytes \div (2 ^ BBSHIFT))

\* maxpos of xmbuf_alloc: private, a page, a page and a basic block.
TargetMaxbytes == {0, PAGE_SIZE, PAGE_SIZE + BBSIZE}
\* blkno of a cache key: the first page, a block inside it, the second and
\* the third page.
BlknoChoices == {0, 1, 8, 16}
\* bblen of a cache key: one page, two pages.
BblenChoices == {8, 16}
\* daddr of xmbuf_verify_daddr
DaddrChoices == {-1, 0, 1, 7, 8, 9}
\* What fails in xmbuf_alloc after the partition was acquired.
AllocFailures == {"", "cache_init", "pthread_mutex_init"}

\* xmbuf_alloc(mp, descr, maxpos, btpp)
xmbuf_alloc(maxpos, fail) ==
    \E cr \in {XfileCreate(CurPool, xfiles, maxpos)} :
    LET free == {t \in BtpIds : ~btps[t].live}
        undo == XfileDestroy(cr.pool, cr.xfiles, cr.xf)
    IN  IF free = {}
        THEN /\ last' = Call("xmbuf_alloc", 0, 0, maxpos, <<>>, ENOMEM, <<>>, 0)
             /\ UNCHANGED <<xvars, bvars>>
        ELSE IF cr.error # ""
        THEN /\ last' = Call("xmbuf_alloc", 0, 0, maxpos, <<>>, cr.error,
                             <<>>, 0)
             /\ fcbs' = cr.pool.fcbs /\ fcb_list' = cr.pool.fcb_list
             /\ hist' = cr.pool.hist /\ xfiles' = cr.xfiles
             /\ UNCHANGED bvars
        ELSE IF fail # ""
        THEN /\ last' = Call("xmbuf_alloc", 0, 0, maxpos, <<>>, ENOMEM,
                             <<>>, 0)
             /\ fcbs' = undo.pool.fcbs /\ fcb_list' = undo.pool.fcb_list
             /\ hist' = undo.pool.hist /\ xfiles' = undo.xfiles
             /\ UNCHANGED bvars
        ELSE LET t == CHOOSE u \in free : \A w \in free : u <= w
             IN  /\ last' = Call("xmbuf_alloc", t, 0, maxpos, <<>>, "", <<>>, 0)
                 /\ fcbs' = cr.pool.fcbs /\ fcb_list' = cr.pool.fcb_list
                 /\ hist' = cr.pool.hist /\ xfiles' = cr.xfiles
                 /\ btps' = [btps EXCEPT ![t] =
                                [live |-> TRUE, bt_xfile |-> cr.xf]]
                 /\ UNCHANGED <<bufs, vmas, blog>>

\* Mutant of xmbuf_free: the partition is not destroyed with the target (no
\* xfile_destroy).
xmbuf_free_KeepXfile(t) ==
    /\ btps[t].live
    /\ LET cd == cache_destroy(CurBst, t)
       IN  bufs' = cd.bufs /\ vmas' = cd.vmas /\ blog' = cd.blog
    /\ btps' = [btps EXCEPT ![t] = NoBtp]
    /\ last' = Call("xmbuf_free", t, 0, 0, <<>>, "", <<>>, 0)
    /\ UNCHANGED xvars

\* xmbuf_free(btp)
xmbuf_free(t) ==
    /\ btps[t].live
    /\ LET cd == cache_destroy(CurBst, t)
           xd == XfileDestroy(CurPool, xfiles, btps[t].bt_xfile)
       IN  /\ bufs' = cd.bufs /\ vmas' = cd.vmas /\ blog' = cd.blog
           /\ fcbs' = xd.pool.fcbs /\ fcb_list' = xd.pool.fcb_list
           /\ hist' = xd.pool.hist /\ xfiles' = xd.xfiles
    /\ btps' = [btps EXCEPT ![t] = NoBtp]
    /\ last' = Call("xmbuf_free", t, 0, 0, <<>>, "", <<>>, 0)

\* The cache misses and constructs a node: xmbuf_cache_alloc(key).
CacheAlloc(t, blkno, bblen) ==
    /\ btps[t].live
    /\ LET r == xmbuf_cache_alloc(CurBst, xfiles, btps, blkno, bblen, t)
       IN  /\ bufs' = r.bst.bufs /\ vmas' = r.bst.vmas /\ blog' = r.bst.blog
           /\ last' = Call("cache_alloc", t, blkno, bblen, <<>>,
                           IF r.node = 0 THEN "NULL" ELSE "", <<>>, r.node)
    /\ UNCHANGED <<xvars, btps>>

\* The cache lets go of one node: xmbuf_cache_relse(node).
CacheRelse(b) ==
    /\ bufs[b].live
    /\ LET r == xmbuf_cache_relse(CurBst, b)
       IN  bufs' = r.bufs /\ vmas' = r.vmas /\ blog' = r.blog
    /\ last' = Call("cache_relse", b, 0, 0, <<>>, "", <<>>, 0)
    /\ UNCHANGED <<xvars, btps>>

\* The cache lets go of a list of nodes: xmbuf_cache_bulkrelse(cache, list).
CacheBulkRelse(t, S) ==
    /\ btps[t].live
    /\ \A b \in S : bufs[b].live /\ bufs[b].b_target = t
    /\ LET r == xmbuf_cache_bulkrelse(CurBst, SetToSeq(S))
       IN  /\ bufs' = r.bst.bufs /\ vmas' = r.bst.vmas /\ blog' = r.bst.blog
           /\ last' = Call("cache_bulkrelse", t, 0, Cardinality(S),
                           SetToSeq(S), "", <<>>, r.count)
    /\ UNCHANGED <<xvars, btps>>

\* xmbuf_verify_daddr(btp, daddr) on a live target
VerifyDaddr(t, daddr) ==
    /\ btps[t].live
    /\ last' = Call("verify_daddr", t, daddr, 0, <<>>, "", <<>>,
                    IF xmbuf_verify_daddr(xfiles[btps[t].bt_xfile], daddr)
                    THEN 1 ELSE 0)
    /\ UNCHANGED <<xvars, bvars>>

\* b_flags bit and error the model tells apart
LIBXFS_B_STALE == "LIBXFS_B_STALE"
EFSCORRUPTED == "EFSCORRUPTED"

\* xfs_buf_daddr(bp)
xfs_buf_daddr(bp) == bp.bm_bn

\* Mutant of xmbuf_stale: the block address is used as a byte offset (no
\* BBTOB).
xmbuf_stale_NoBBTOB(fs, xfs, tgts, bp) ==
    LET xf == xfs[tgts[bp.b_target].bt_xfile]
        pos == ToS64(xfs_buf_daddr(bp) + xf.partition_pos)
    IN  [fs EXCEPT ![xf.fcb].file = PunchHole(@, pos, BBTOB(bp.b_length))]

\* xmbuf_stale(bp): the memfd of the buffer's target after the punch.
xmbuf_stale(fs, xfs, tgts, bp) ==
    LET xf == xfs[tgts[bp.b_target].bt_xfile]
        pos == ToS64(BBTOB(xfs_buf_daddr(bp)) + xf.partition_pos)
    IN  [fs EXCEPT ![xf.fcb].file = PunchHole(@, pos, BBTOB(bp.b_length))]

\* What bp->b_ops->verify_struct(bp) can return: NULL or a failure address.
VerifierResults == {0, 1}

\* Mutant of Finalize: the error of a failed verification is dropped.
Finalize_DropError(fs, bl, xfs, tgts, b, bp, fa) ==
    IF LIBXFS_B_STALE \in bp.b_flags
    THEN [error |-> "", fcbs |-> xmbuf_stale(fs, xfs, tgts, bp),
          blog |-> [bl EXCEPT ![b].discarded = @ + 1]]
    ELSE [error |-> "", fcbs |-> fs,
          blog |-> [bl EXCEPT ![b].verified = @ + 1]]

\* Mutant of Finalize: the verifier runs before LIBXFS_B_STALE is looked at.
Finalize_VerifyFirst(fs, bl, xfs, tgts, b, bp, fa) ==
    IF fa # 0
    THEN [error |-> EFSCORRUPTED, fcbs |-> fs,
          blog |-> [bl EXCEPT ![b].verified = @ + 1]]
    ELSE IF LIBXFS_B_STALE \in bp.b_flags
    THEN [error |-> "", fcbs |-> xmbuf_stale(fs, xfs, tgts, bp),
          blog |-> [bl EXCEPT ![b].verified = @ + 1,
                              ![b].discarded = @ + 1]]
    ELSE [error |-> "", fcbs |-> fs,
          blog |-> [bl EXCEPT ![b].verified = @ + 1]]

\* The body of xmbuf_finalize(bp): [error, fcbs, blog].  fa is what the
\* verifier returns if it is run.
Finalize(fs, bl, xfs, tgts, b, bp, fa) ==
    IF LIBXFS_B_STALE \in bp.b_flags
    THEN [error |-> "", fcbs |-> xmbuf_stale(fs, xfs, tgts, bp),
          blog |-> [bl EXCEPT ![b].discarded = @ + 1]]
    ELSE [error |-> IF fa # 0 THEN EFSCORRUPTED ELSE "", fcbs |-> fs,
          blog |-> [bl EXCEPT ![b].verified = @ + 1]]

\* xmbuf_finalize(bp); bfs holds the buffers with the flags the client left
\* on them.
xmbuf_finalize(bfs, b, fa) ==
    /\ bfs[b].live
    /\ LET r == Finalize(fcbs, blog, xfiles, btps, b, bfs[b], fa)
       IN  /\ fcbs' = r.fcbs
           /\ blog' = r.blog
           /\ last' = Call("finalize", b, 0, fa, <<>>, r.error, <<>>, 0)
    /\ bufs' = bfs
    /\ UNCHANGED <<fcb_list, xfiles, hist, btps, vmas>>

\* The byte the clients store through b_addr.
ByteChoices == {5}

\* The client stores a byte at b_addr[0]: the mapping is MAP_SHARED, so the
\* byte lands in the memfd at the mapped offset.  A store beyond the last
\* page of the file raises SIGBUS; such a client does not go on.
MappedStore(b, byte) ==
    /\ bufs[b].live
    /\ \E v \in vmas :
        /\ v.addr = bufs[b].b_addr
        /\ fcbs[v.fd].open
        /\ v.off < roundup_64(fcbs[v.fd].file.size, PAGE_SIZE)
        /\ fcbs' = [fcbs EXCEPT ![v.fd].file =
                        [size |-> @.size,
                         data |-> [o \in DOMAIN @.data \cup {v.off} |->
                                     IF o = v.off THEN byte ELSE @.data[o]],
                         alloc |-> @.alloc \cup {PageOf(v.off)}]]
    /\ blog' = [blog EXCEPT ![b].stored = TRUE]
    /\ UNCHANGED <<fcb_list, xfiles, hist, last, ncalls, btps, bufs, vmas>>

\* The buffer cache marks the buffer stale: bp->b_flags |= LIBXFS_B_STALE.
MarkStale(bfs, b) == [bfs EXCEPT ![b].b_flags = @ \cup {LIBXFS_B_STALE}]

\* ------------------------------------------------------------ specification
BInit ==
    /\ btps = [t \in BtpIds |-> NoBtp]
    /\ bufs = [b \in BufIds |-> NoBuf]
    /\ vmas = {}
    /\ blog = [b \in BufIds |-> NoLog]

\* ------------------------------------------- xfile.c, statement by statement
\* One more call is made.
Counted == ncalls < MaxCalls /\ ncalls' = ncalls + 1

\* The threads of the process.
MaxThreads == 2
Threads == 1 .. MaxThreads

\* maxbytes of the xfile_create calls of the threads: private, a page, and
\* more than a file can hold.
ThreadMaxbytes == {0, PAGE_SIZE, FSIZE_MAX + PAGE_SIZE}

\* A thread outside every call; decs counts the writes of the call that
\* lower a reference count, unlocks its calls of pthread_mutex_unlock in
\* xfile_fcb_find, fail is the system call of the tail shrink that failed.
IdleThread == [pc |-> "idle", x |-> 0, f |-> 0, i |-> 0, pos |-> 0, rc |-> 0,
               maxbytes |-> 0, err |-> "", fail |-> "", decs |-> 0,
               unlocks |-> 0]

\* The struct xfile objects that a thread in xfile_create has allocated and
\* not yet returned.
Reserved == {thr[t].x : t \in {u \in Threads : thr[u].pc # "idle"}}

\* An access of kind what to the pool list or to a reference count by thread
\* t.
Access(t, what) ==
    racy' = IF fcb_mutex = t THEN racy ELSE racy \cup {what}

\* Mutant of pthread_mutex_lock: the call returns at once without taking the
\* mutex.
pthread_mutex_lock_Skip(t) == fcb_mutex' = fcb_mutex

\* pthread_mutex_lock(&fcb_mutex)
pthread_mutex_lock(t) == fcb_mutex = 0 /\ fcb_mutex' = t

\* pthread_mutex_unlock(&fcb_mutex)
pthread_mutex_unlock(t) == fcb_mutex' = IF fcb_mutex = t THEN 0 ELSE fcb_mutex

\* Thread t moves to pc, with the locals changed to loc.
Goto(t, pc, loc) == thr' = [thr EXCEPT ![t] = [loc EXCEPT !.pc = pc]]

\* The pool of the variables becomes pool.
SetPool(pool) ==
    /\ fcbs' = pool.fcbs
    /\ fcb_list' = pool.fcb_list
    /\ hist' = pool.hist

\* xfile_create(description, maxbytes, xfilep) is called: kmalloc of xf.
ThrCreateCall(t, maxbytes) ==
    /\ thr[t].pc = "idle"
    /\ Counted
    /\ LET free == {x \in XfileIds : ~xfiles[x].live} \ Reserved
       IN  IF free = {}
           THEN /\ last' = Call("create", 0, 0, maxbytes, <<>>, ENOMEM,
                                <<>>, 0)
                /\ UNCHANGED thr
           ELSE /\ Goto(t, IF maxbytes = 0 THEN "fcb_create" ELSE "find_lock",
                        [IdleThread EXCEPT
                            !.x = CHOOSE y \in free : \A z \in free : y <= z,
                            !.maxbytes = maxbytes])
                /\ UNCHANGED last
    /\ UNCHANGED <<xvars, bvars, fcb_mutex, racy, bli>>

\* xfile_fcb_find, maxbytes == 0: xfile_fcb_create without the mutex.
ThrPrivateCreate(t) ==
    /\ thr[t].pc = "fcb_create"
    /\ LET cr == xfile_fcb_create(CurPool)
       IN  /\ SetPool(cr.pool)
           /\ Goto(t, "create_ret",
                   [thr[t] EXCEPT !.f = cr.fcb, !.err = cr.error, !.pos = 0])
    /\ Access(t, "refcount_init")
    /\ UNCHANGED <<xfiles, last, ncalls, bvars, fcb_mutex, bli>>

\* xfile_fcb_find: pthread_mutex_lock(&fcb_mutex)
ThrFindLock(t) ==
    /\ thr[t].pc = "find_lock"
    /\ pthread_mutex_lock(t)
    /\ Goto(t, "scan", [thr[t] EXCEPT !.i = 1])
    /\ UNCHANGED <<xvars, last, ncalls, bvars, racy, bli>>

\* list_for_each_entry: the next member of the list, its fstat, and pos.
ThrScanStat(t) ==
    /\ thr[t].pc = "scan"
    /\ IF thr[t].i > Len(fcb_list)
       THEN Goto(t, "new", thr[t])
       ELSE LET f == fcb_list[thr[t].i]
            IN  Goto(t, "extend",
                     [thr[t] EXCEPT !.f = f,
                        !.pos = ToS64(roundup_64(fcbs[f].file.size,
                                                 PAGE_SIZE))])
    /\ Access(t, "fcb_list")
    /\ UNCHANGED <<xvars, last, ncalls, bvars, fcb_mutex, bli>>

\* ftruncate(fcb->fd, pos + maxbytes); continue if it fails.
ThrScanExtend(t) ==
    /\ thr[t].pc = "extend"
    /\ LET f == thr[t].f
           tr == Ftruncate(fcbs[f].file,
                    ToS64(thr[t].pos + roundup_64(thr[t].maxbytes, PAGE_SIZE)))
       IN  IF tr.ok
           THEN /\ fcbs' = [fcbs EXCEPT ![f].file = tr.file]
                /\ Goto(t, "ref_read", thr[t])
           ELSE /\ UNCHANGED fcbs
                /\ Goto(t, "scan", [thr[t] EXCEPT !.i = @ + 1])
    /\ UNCHANGED <<fcb_list, xfiles, hist, last, ncalls, bvars, fcb_mutex,
                   racy, bli>>

\* fcb->refcount++: the read
ThrRefRead(t) ==
    /\ thr[t].pc = "ref_read"
    /\ Goto(t, "ref_write", [thr[t] EXCEPT !.rc = fcbs[thr[t].f].refcount])
    /\ Access(t, "refcount")
    /\ UNCHANGED <<xvars, last, ncalls, bvars, fcb_mutex, bli>>

\* fcb->refcount++: the write
ThrRefWrite(t) ==
    /\ thr[t].pc = "ref_write"
    /\ fcbs' = [fcbs EXCEPT ![thr[t].f].refcount = thr[t].rc + 1]
    /\ hist' = [hist EXCEPT ![thr[t].f].acquired = @ + 1]
    /\ Goto(t, "find_unlock", thr[t])
    /\ Access(t, "refcount")
    /\ UNCHANGED <<fcb_list, xfiles, last, ncalls, bvars, fcb_mutex, bli>>

\* The new file of thread t: created by xfile_fcb_create as cr, extended by
\* ftruncate as tr; it joins the list when add says so.  A file that could
\* not be extended goes to xfile_fcb_irele.
NewFileStep(t, cr, tr, add) ==
    IF cr.error # ""
    THEN /\ UNCHANGED <<fcbs, fcb_list, hist>>
         /\ Goto(t, "find_unlock", [thr[t] EXCEPT !.err = cr.error])
    ELSE /\ SetPool([cr.pool EXCEPT
                !.fcbs[cr.fcb].file = tr.file,
                !.fcb_list = IF add THEN Append(@, cr.fcb) ELSE @,
                !.hist[cr.fcb].shared = add])
         /\ Goto(t, IF tr.ok THEN "find_unlock" ELSE "find_irele",
                 [thr[t] EXCEPT !.f = cr.fcb, !.pos = 0,
                                !.err = IF tr.ok THEN "" ELSE tr.errno])

\* Mutant of ThrNewFile: list_add_tail comes before the ftruncate, so a file
\* that cannot be extended is on the list already.
ThrNewFile_AddFirst(t) ==
    /\ thr[t].pc = "new"
    /\ \E cr \in {xfile_fcb_create(CurPool)} :
        \E tr \in {Ftruncate(EmptyFile,
                        ToS64(roundup_64(thr[t].maxbytes, PAGE_SIZE)))} :
            NewFileStep(t, cr, tr, TRUE)
    /\ Access(t, "fcb_list")
    /\ UNCHANGED <<xfiles, last, ncalls, bvars, fcb_mutex, bli>>

\* No member fits: xfile_fcb_create, ftruncate(fd, maxbytes), and
\* list_add_tail if the file could be extended.
ThrNewFile(t) ==
    /\ thr[t].pc = "new"
    /\ \E cr \in {xfile_fcb_create(CurPool)} :
        \E tr \in {Ftruncate(EmptyFile,
                        ToS64(roundup_64(thr[t].maxbytes, PAGE_SIZE)))} :
            NewFileStep(t, cr, tr, tr.ok)
    /\ Access(t, "fcb_list")
    /\ UNCHANGED <<xfiles, last, ncalls, bvars, fcb_mutex, bli>>

\* xfile_fcb_irele(fcb, 0, maxbytes) called by xfile_fcb_find, which holds
\* the mutex: a file linked only to itself is closed and freed without a
\* lock; for a file on the list the function goes on to
\* pthread_mutex_lock(&fcb_mutex), which its caller holds.
ThrFindIrele(t) ==
    /\ thr[t].pc = "find_irele"
    /\ IF ~InList(fcb_list, thr[t].f)
       THEN /\ SetPool(CloseFcb([CurPool EXCEPT
                            !.hist[thr[t].f].released = @ + 1], thr[t].f))
            /\ Goto(t, "find_unlock", thr[t])
       ELSE /\ UNCHANGED <<fcbs, fcb_list, hist>>
            /\ Goto(t, "find_relock", thr[t])
    /\ UNCHANGED <<xfiles, last, ncalls, bvars, fcb_mutex, racy, bli>>

\* out_unlock: pthread_mutex_unlock(&fcb_mutex)
ThrFindUnlock(t) ==
    /\ thr[t].pc = "find_unlock"
    /\ pthread_mutex_unlock(t)
    /\ Goto(t, "create_ret", [thr[t] EXCEPT !.unlocks = @ + 1])
    /\ UNCHANGED <<xvars, last, ncalls, bvars, racy, bli>>

\* xfile_create returns: the partition, or the error after kfree(xf).
ThrCreateReturn(t) ==
    /\ thr[t].pc = "create_ret"
    /\ IF thr[t].err # ""
       THEN /\ last' = Call("create", 0, 0, thr[t].maxbytes, <<>>, thr[t].err,
                            <<>>, 0)
            /\ UNCHANGED xfiles
       ELSE /\ last' = Call("create", thr[t].x, 0, thr[t].maxbytes, <<>>, "",
                            <<>>, 0)
            /\ xfiles' = [xfiles EXCEPT ![thr[t].x] =
                            [live |-> TRUE, fcb |-> thr[t].f,
                             partition_pos |-> thr[t].pos,
                             maxbytes |-> thr[t].maxbytes]]
    /\ Goto(t, "idle", IdleThread)
    /\ UNCHANGED <<fcbs, fcb_list, hist, ncalls, bvars, fcb_mutex, racy, bli>>

\* xfile_destroy(xf) is called; xfile_fcb_irele tests list_empty without the
\* mutex.
ThrDestroyCall(t, x) ==
    /\ thr[t].pc = "idle"
    /\ Counted
    /\ xfiles[x].live /\ x \notin Reserved
    /\ Goto(t, IF InList(fcb_list, xfiles[x].fcb) THEN "rele_lock"
               ELSE "rele_close",
            [IdleThread EXCEPT !.x = x, !.f = xfiles[x].fcb,
                               !.pos = xfiles[x].partition_pos,
                               !.maxbytes = xfiles[x].maxbytes])
    /\ Access(t, "list_empty")
    /\ UNCHANGED <<xvars, last, bvars, fcb_mutex, bli>>

\* The private file: close(fcb->fd); free(fcb)
ThrClosePrivate(t) ==
    /\ thr[t].pc = "rele_close"
    /\ SetPool(CloseFcb([CurPool EXCEPT !.hist[thr[t].f].released = @ + 1],
                        thr[t].f))
    /\ Goto(t, "destroy_ret", thr[t])
    /\ UNCHANGED <<xfiles, last, ncalls, bvars, fcb_mutex, racy, bli>>

\* xfile_fcb_irele: pthread_mutex_lock(&fcb_mutex)
ThrReleLock(t) ==
    /\ thr[t].pc = "rele_lock"
    /\ pthread_mutex_lock(t)
    /\ Goto(t, "dec_read", thr[t])
    /\ UNCHANGED <<xvars, last, ncalls, bvars, racy, bli>>

\* --fcb->refcount: the read
ThrDecRead(t) ==
    /\ thr[t].pc = "dec_read"
    /\ Goto(t, "dec_write", [thr[t] EXCEPT !.rc = fcbs[thr[t].f].refcount])
    /\ Access(t, "refcount")
    /\ UNCHANGED <<xvars, last, ncalls, bvars, fcb_mutex, bli>>

\* --fcb->refcount == 0: the write, and list_del, close and free at 0.
ThrDecWrite(t) ==
    /\ thr[t].pc = "dec_write"
    /\ LET f == thr[t].f
           pool == [CurPool EXCEPT !.hist[f].released = @ + 1]
       IN  IF thr[t].rc - 1 = 0
           THEN /\ SetPool(CloseFcb([pool EXCEPT
                                !.fcb_list = ListDel(pool.fcb_list, f)], f))
                /\ Goto(t, "rele_unlock", [thr[t] EXCEPT !.decs = @ + 1])
           ELSE /\ SetPool([pool EXCEPT !.fcbs[f].refcount = thr[t].rc - 1])
                /\ Goto(t, IF thr[t].maxbytes > 0 THEN "rele_fstat"
                           ELSE "rele_unlock",
                        [thr[t] EXCEPT !.decs = @ + 1])
    /\ Access(t, "refcount")
    /\ UNCHANGED <<xfiles, last, ncalls, bvars, fcb_mutex, bli>>

\* Mutant of ThrReleFstat: when fstat fails the function returns at once,
\* without pthread_mutex_unlock.
ThrReleFstat_EarlyReturn(t, ok) ==
    /\ thr[t].pc = "rele_fstat"
    /\ IF ~ok
       THEN Goto(t, "destroy_ret", [thr[t] EXCEPT !.fail = "fstat"])
       ELSE IF ToU64(fcbs[thr[t].f].file.size)
                    = ToU64(thr[t].pos + thr[t].maxbytes)
       THEN Goto(t, "rele_ftruncate", thr[t])
       ELSE Goto(t, "rele_unlock", thr[t])
    /\ UNCHANGED <<xvars, last, ncalls, bvars, fcb_mutex, racy, bli>>

\* ret = fstat(fcb->fd, &statbuf); !ret && statbuf.st_size == pos + len
ThrReleFstat(t, ok) ==
    /\ thr[t].pc = "rele_fstat"
    /\ IF ~ok
       THEN Goto(t, "rele_unlock", [thr[t] EXCEPT !.fail = "fstat"])
       ELSE IF ToU64(fcbs[thr[t].f].file.size)
                    = ToU64(thr[t].pos + thr[t].maxbytes)
       THEN Goto(t, "rele_ftruncate", thr[t])
       ELSE Goto(t, "rele_unlock", thr[t])
    /\ UNCHANGED <<xvars, last, ncalls, bvars, fcb_mutex, racy, bli>>

\* ret = ftruncate(fcb->fd, pos)
ThrReleFtruncate(t, ok) ==
    /\ thr[t].pc = "rele_ftruncate"
    /\ IF ok
       THEN /\ fcbs' = [fcbs EXCEPT ![thr[t].f].file =
                            Ftruncate(@, thr[t].pos).file]
            /\ Goto(t, "rele_unlock", thr[t])
       ELSE /\ UNCHANGED fcbs
            /\ Goto(t, "rele_unlock", [thr[t] EXCEPT !.fail = "ftruncate"])
    /\ UNCHANGED <<fcb_list, xfiles, hist, last, ncalls, bvars, fcb_mutex,
                   racy, bli>>

\* xfile_fcb_irele: pthread_mutex_unlock(&fcb_mutex)
ThrReleUnlock(t) ==
    /\ thr[t].pc = "rele_unlock"
    /\ pthread_mutex_unlock(t)
    /\ Goto(t, "destroy_ret", thr[t])
    /\ UNCHANGED <<xvars, last, ncalls, bvars, racy, bli>>

\* xfile_destroy: kfree(xf) and return.
ThrDestroyReturn(t) ==
    /\ thr[t].pc = "destroy_ret"
    /\ xfiles' = [xfiles EXCEPT ![thr[t].x] = NoXfile]
    /\ last' = Call("destroy", thr[t].x, 0, 0, <<>>, "",
                    IF thr[t].fail = "" THEN <<>> ELSE <<thr[t].fail>>, 0)
    /\ Goto(t, "idle", IdleThread)
    /\ UNCHANGED <<fcbs, fcb_list, hist, ncalls, bvars, fcb_mutex, racy, bli>>

\* ------------------------------------------------------- xmbuf_libinit
\* The largest page size that sysconf reports here is 2 ^ MaxPageShift.
MaxPageShift == 20

\* What sysconf(_SC_PAGESIZE) returns: an error, 0, every small number, and
\* around every power of two up to the largest page size.
SysconfChoices ==
    (-2 .. 130) \cup {-4096, 3 * 4096}
    \cup {2 ^ k : k \in 0 .. MaxPageShift}
    \cup {2 ^ k - 1 : k \in 8 .. MaxPageShift}
    \cup {2 ^ k + 1 : k \in 8 .. MaxPageShift}

\* is_power_of_2(n): n != 0 && (n & (n - 1)) == 0, for n >= 0.  Clearing the
\* lowest set bit leaves 0 exactly when halving an even n again and again
\* ends at 1.
RECURSIVE is_power_of_2(_)
is_power_of_2(n) ==
    IF n <= 0 THEN FALSE
    ELSE IF n = 1 THEN TRUE
    ELSE n % 2 = 0 /\ is_power_of_2(n \div 2)

\* libxfs_highbit32(v): the index of the highest bit set in v, -1 for 0.
RECURSIVE libxfs_highbit32(_)
libxfs_highbit32(v) ==
    IF v = 0 THEN -1 ELSE 1 + libxfs_highbit32(v \div 2)

\* Mutant of xmbuf_libinit: only a negative page size is replaced by 4096.
xmbuf_libinit_NoPow2Test(sysconf) ==
    LET Set(ret) == [XMBUF_BLOCKSIZE |-> ret,
                     XMBUF_BLOCKSHIFT |-> libxfs_highbit32(ret)]
    IN  Set(IF sysconf < 0 THEN 4096 ELSE sysconf)

\* xmbuf_libinit() where sysconf(_SC_PAGESIZE) returns sysconf: the two
\* globals it sets.  ret is a positive power of two of at most
\* 2 ^ MaxPageShift when it is assigned to the unsigned int, which holds it
\* unchanged.
xmbuf_libinit(sysconf) ==
    LET Set(ret) == [XMBUF_BLOCKSIZE |-> ret,
                     XMBUF_BLOCKSHIFT |-> libxfs_highbit32(ret)]
    IN  Set(IF sysconf < 0 \/ ~is_power_of_2(sysconf) THEN 4096 ELSE sysconf)

\* The library is initialized on a system whose page size is any of
\* SysconfChoices.
LibInit ==
    /\ Counted
    /\ \E sysconf \in SysconfChoices :
        \E g \in {xmbuf_libinit(sysconf)} :
            last' = Call("xmbuf_libinit", 0, sysconf, 0, <<>>, "",
                         <<g.XMBUF_BLOCKSIZE, g.XMBUF_BLOCKSHIFT>>, 0)
    /\ UNCHANGED <<xvars, bvars, cvars>>

\* ----------------------------------------- xmbuf_free, statement by statement
\* The single caller of the xmbuf functions ("xmbufs assume that the caller
\* will handle all required concurrency management").
Caller == 1

\* Mutant of FreeOrder: the partition is destroyed before the cache.
FreeOrder_XfileFirst == <<"free_xfile", "free_cache", "free_ret">>

\* The statements of xmbuf_free in their order: cache_destroy(btp->bcache),
\* xfile_destroy(btp->bt_xfile), kfree(btp).  (pthread_mutex_destroy of the
\* target's own lock, between the first two, changes nothing here.)
FreeOrder == <<"free_cache", "free_xfile", "free_ret">>

\* The statement after the one at pc.
FreeAfter(pc) ==
    LET k == CHOOSE j \in 1 .. Len(FreeOrder) : FreeOrder[j] = pc
    IN  IF k < Len(FreeOrder) THEN FreeOrder[k + 1] ELSE "idle"

\* xmbuf_free(btp) is called; i is the target and x its partition.
FreeCall(tgt) ==
    /\ thr[Caller].pc = "idle"
    /\ Counted
    /\ btps[tgt].live
    /\ Goto(Caller, FreeOrder[1],
            [IdleThread EXCEPT !.i = tgt, !.x = btps[tgt].bt_xfile])
    /\ UNCHANGED <<xvars, bvars, last, fcb_mutex, racy, bli>>

\* cache_destroy(btp->bcache)
FreeCacheDestroy ==
    /\ thr[Caller].pc = "free_cache"
    /\ \E cd \in {cache_destroy(CurBst, thr[Caller].i)} :
            bufs' = cd.bufs /\ vmas' = cd.vmas /\ blog' = cd.blog
    /\ Goto(Caller, FreeAfter("free_cache"), thr[Caller])
    /\ UNCHANGED <<xvars, btps, last, ncalls, fcb_mutex, racy, bli>>

\* xfile_destroy(btp->bt_xfile)
FreeXfileDestroy ==
    /\ thr[Caller].pc = "free_xfile"
    /\ \E xd \in {XfileDestroy(CurPool, xfiles, thr[Caller].x)} :
            SetPool(xd.pool) /\ xfiles' = xd.xfiles
    /\ Goto(Caller, FreeAfter("free_xfile"), thr[Caller])
    /\ UNCHANGED <<bvars, last, ncalls, fcb_mutex, racy, bli>>

\* kfree(btp)
FreeReturn ==
    /\ thr[Caller].pc = "free_ret"
    /\ btps' = [btps EXCEPT ![thr[Caller].i] = NoBtp]
    /\ last' = Call("xmbuf_free", thr[Caller].i, 0, 0, <<>>, "", <<>>, 0)
    /\ Goto(Caller, FreeAfter("free_ret"), IdleThread)
    /\ UNCHANGED <<xvars, bufs, vmas, blog, ncalls, fcb_mutex, racy, bli>>

\* ------------------------------------------------ xmbuf_trans_bdetach
\* bli_flags and li_flags bits
XFS_BLI_DIRTY == "XFS_BLI_DIRTY"
XFS_BLI_ORDERED == "XFS_BLI_ORDERED"
XFS_BLI_STALE == "XFS_BLI_STALE"
XFS_BLI_LOGGED == "XFS_BLI_LOGGED"
XFS_LI_DIRTY == "XFS_LI_DIRTY"

\* struct xfs_buf_log_item: bli_flags and bli_item.li_flags
NoItem == [bli_flags |-> {}, li_flags |-> {}]
\* The log items that transactions link to a buffer.
ItemChoices ==
    {[bli_flags |-> {XFS_BLI_DIRTY, XFS_BLI_LOGGED},
      li_flags |-> {XFS_LI_DIRTY}],
     [bli_flags |-> {XFS_BLI_ORDERED, XFS_BLI_DIRTY},
      li_flags |-> {XFS_LI_DIRTY}],
     [bli_flags |-> {XFS_BLI_STALE}, li_flags |-> {}],
     NoItem}

\* items: the log items linked to the buffer, b_log_item first; pc: where
\* xmbuf_trans_bdetach is; first: the item it started with, as it is now;
\* detached: the xfs_trans_bdetach calls of the running or last call.
NoBli == [items |-> <<>>, pc |-> "idle", first |-> NoItem, detached |-> 0]

\* A transaction links one more log item to the buffer.
BliAttach(item) ==
    /\ bli.pc = "idle"
    /\ Counted
    /\ bli' = [bli EXCEPT !.items = <<item>> \o @]
    /\ UNCHANGED <<xvars, bvars, last, fcb_mutex, thr, racy>>

\* xfs_trans_bdetach(tp, bp): one linkage of the buffer is removed.
xfs_trans_bdetach(items) == Tail(items)

\* Mutant of ClearLogFlags: XFS_BLI_STALE is left set.
ClearLogFlags_KeepStale(item) ==
    [bli_flags |-> item.bli_flags \ {XFS_BLI_DIRTY, XFS_BLI_ORDERED},
     li_flags |-> item.li_flags \ {XFS_LI_DIRTY}]

\* bli->bli_flags &= ~(XFS_BLI_DIRTY | XFS_BLI_ORDERED | XFS_BLI_STALE);
\* clear_bit(XFS_LI_DIRTY, &bli->bli_item.li_flags)
ClearLogFlags(item) ==
    [bli_flags |-> item.bli_flags
                    \ {XFS_BLI_DIRTY, XFS_BLI_ORDERED, XFS_BLI_STALE},
     li_flags |-> item.li_flags \ {XFS_LI_DIRTY}]

\* xmbuf_trans_bdetach(tp, bp) up to the loop; b_log_item is not NULL.
BdetachCall ==
    /\ bli.pc = "idle"
    /\ bli.items # <<>>
    /\ Counted
    /\ LET cleared == ClearLogFlags(Head(bli.items))
       IN  bli' = [items |-> <<cleared>> \o Tail(bli.items), pc |-> "loop",
                   first |-> cleared, detached |-> 0]
    /\ UNCHANGED <<xvars, bvars, last, fcb_mutex, thr, racy>>

\* while (bp->b_log_item != NULL) xfs_trans_bdetach(tp, bp): one round
BdetachLoop ==
    /\ bli.pc = "loop"
    /\ bli.items # <<>>
    /\ bli' = [bli EXCEPT !.items = xfs_trans_bdetach(@),
                          !.detached = @ + 1]
    /\ UNCHANGED <<xvars, bvars, last, ncalls, fcb_mutex, thr, racy>>

\* b_log_item is NULL: the loop ends and xmbuf_trans_bdetach returns.
BdetachReturn ==
    /\ bli.pc = "loop"
    /\ bli.items = <<>>
    /\ bli' = [bli EXCEPT !.pc = "idle"]
    /\ last' = Call("bdetach", 0, 0, bli.detached, <<>>, "", <<>>, 0)
    /\ UNCHANGED <<xvars, bvars, ncalls, fcb_mutex, thr, racy>>

CInit ==
    /\ fcb_mutex = 0
    /\ thr = [t \in Threads |-> IdleThread]
    /\ racy = {}
    /\ bli = NoBli

Init == XInit /\ BInit /\ CInit


\* One more call is made, and it runs to its end before anything else happens.
Called == Counted /\ UNCHANGED cvars

Create == Called /\ UNCHANGED bvars /\ \E m \in MaxbytesChoices : xfile_create(m)
Destroy == Called /\ UNCHANGED bvars /\ \E x \in XfileIds : xfile_destroy(x)
Load == Called /\ UNCHANGED bvars
            /\ \E x \in XfileIds, c \in CountChoices, p \in PosChoices :
                    xfile_load(x, c, p)
Store == Called /\ UNCHANGED bvars
            /\ \E x \in XfileIds, b \in BufChoices, p \in PosChoices :
                    xfile_store(x, b, p)
Discard == Called /\ UNCHANGED bvars
            /\ \E x \in XfileIds, p \in PosChoices, c \in DiscardChoices :
                    xfile_discard(x, p, c)
Bytes == Called /\ UNCHANGED bvars /\ \E x \in XfileIds : xfile_bytes(x)

Next == Create \/ Destroy \/ Load \/ Store \/ Discard \/ Bytes

\* The clients call the xfile API directly.
Spec == Init /\ [][Next]_vars

TargetAlloc == Called /\ \E m \in TargetMaxbytes, f \in AllocFailures :
                            xmbuf_alloc(m, f)
TargetFree == Called /\ \E t \in BtpIds : xmbuf_free(t)
BufAlloc == Called /\ \E t \in BtpIds, n \in BlknoChoices, l \in BblenChoices :
                            CacheAlloc(t, n, l)
BufRelse == Called /\ \E b \in BufIds : CacheRelse(b)
BufBulkRelse == Called /\ \E t \in BtpIds, S \in SUBSET BufIds :
                            CacheBulkRelse(t, S)
BufVerifyDaddr == Called /\ \E t \in BtpIds, d \in DaddrChoices :
                            VerifyDaddr(t, d)

NextBuf == \/ TargetAlloc \/ TargetFree \/ BufAlloc \/ BufRelse
           \/ BufBulkRelse \/ BufVerifyDaddr

\* The clients reach the partitions through buffer targets and their caches.
SpecBuf == Init /\ [][NextBuf]_vars

\* The client finalizes a buffer, which it has or has not marked stale
\* since the last call.
BufFinalize == Called /\ \E b \in BufIds, fa \in VerifierResults,
                            stale \in BOOLEAN :
                            xmbuf_finalize(IF stale THEN MarkStale(bufs, b)
                                           ELSE bufs, b, fa)
BufStore == UNCHANGED cvars
                /\ \E b \in BufIds, c \in ByteChoices : MappedStore(b, c)

NextFin == \/ TargetAlloc \/ BufAlloc \/ BufStore \/ BufFinalize \/ BufRelse

\* The clients mutate, mark stale, finalize and release the buffers of their
\* targets.
SpecFin == Init /\ [][NextFin]_vars

\* xmbuf_libinit on every kind of system.
SpecInit == Init /\ [][LibInit]_vars

\* The caller is in no call.
CallerIdle == thr[Caller].pc = "idle"

NextFree ==
    \/ CallerIdle /\ TargetAlloc
    \/ CallerIdle /\ BufAlloc
    \/ \E t \in BtpIds : FreeCall(t)
    \/ FreeCacheDestroy
    \/ FreeXfileDestroy
    \/ FreeReturn

\* The client makes targets and buffers and frees the targets; a step of
\* xmbuf_free is one of its statements.
SpecFree == Init /\ [][NextFree]_vars

NextMtx ==
    \/ \E t \in Threads, m \in ThreadMaxbytes : ThrCreateCall(t, m)
    \/ \E t \in Threads : ThrPrivateCreate(t)
    \/ \E t \in Threads : ThrFindLock(t)
    \/ \E t \in Threads : ThrScanStat(t)
    \/ \E t \in Threads : ThrScanExtend(t)
    \/ \E t \in Threads : ThrRefRead(t)
    \/ \E t \in Threads : ThrRefWrite(t)
    \/ \E t \in Threads : ThrNewFile(t)
    \/ \E t \in Threads : ThrFindIrele(t)
    \/ \E t \in Threads : ThrFindUnlock(t)
    \/ \E t \in Threads : ThrCreateReturn(t)
    \/ \E t \in Threads, x \in XfileIds : ThrDestroyCall(t, x)
    \/ \E t \in Threads : ThrClosePrivate(t)
    \/ \E t \in Threads : ThrReleLock(t)
    \/ \E t \in Threads : ThrDecRead(t)
    \/ \E t \in Threads : ThrDecWrite(t)
    \/ \E t \in Threads, ok \in BOOLEAN : ThrReleFstat(t, ok)
    \/ \E t \in Threads, ok \in BOOLEAN : ThrReleFtruncate(t, ok)
    \/ \E t \in Threads : ThrReleUnlock(t)
    \/ \E t \in Threads : ThrDestroyReturn(t)

\* Several threads create and destroy partitions at the same time; a step is
\* one statement of one thread.
SpecMtx == Init /\ [][NextMtx]_vars

\* What thread t does next inside the call it is in.
ThrStep(t) ==
    \/ ThrPrivateCreate(t) \/ ThrFindLock(t) \/ ThrScanStat(t)
    \/ ThrScanExtend(t) \/ ThrRefRead(t) \/ ThrRefWrite(t) \/ ThrNewFile(t)
    \/ ThrFindIrele(t) \/ ThrFindUnlock(t) \/ ThrCreateReturn(t) \/ ThrClosePrivate(t)
    \/ ThrReleLock(t) \/ ThrDecRead(t) \/ ThrDecWrite(t)
    \/ (\E ok \in BOOLEAN : ThrReleFstat(t, ok))
    \/ (\E ok \in BOOLEAN : ThrReleFtruncate(t, ok))
    \/ ThrReleUnlock(t) \/ ThrDestroyReturn(t)

NextRele ==
    \/ \E t \in Threads : ThrCreateCall(t, PAGE_SIZE)
    \/ \E t \in Threads : ThrFindLock(t)
    \/ \E t \in Threads : ThrScanStat(t)
    \/ \E t \in Threads : ThrScanExtend(t)
    \/ \E t \in Threads : ThrRefRead(t)
    \/ \E t \in Threads : ThrRefWrite(t)
    \/ \E t \in Threads : ThrNewFile(t)
    \/ \E t \in Threads : ThrFindUnlock(t)
    \/ \E t \in Threads : ThrCreateReturn(t)
    \/ \E t \in Threads, x \in XfileIds : ThrDestroyCall(t, x)
    \/ \E t \in Threads : ThrReleLock(t)
    \/ \E t \in Threads : ThrDecRead(t)
    \/ \E t \in Threads : ThrDecWrite(t)
    \/ \E t \in Threads, ok \in BOOLEAN : ThrReleFstat(t, ok)
    \/ \E t \in Threads, ok \in BOOLEAN : ThrReleFtruncate(t, ok)
    \/ \E t \in Threads : ThrReleUnlock(t)
    \/ \E t \in Threads : ThrDestroyReturn(t)

\* Several threads create and destroy bounded partitions of one page at the
\* same time, and the scheduler lets every thread that can go on do so.
SpecRele == Init /\ [][NextRele]_vars /\ \A t \in Threads : WF_vars(ThrStep(t))

BufLog == \E item \in ItemChoices : BliAttach(item)

NextDetach == BufLog \/ BdetachCall \/ BdetachLoop \/ BdetachReturn

\* Transactions link log items to a buffer and the client detaches it; a call
\* of xmbuf_trans_bdetach that can go on does so.
SpecDetach == Init /\ [][NextDetach]_vars
                   /\ WF_vars(BdetachLoop \/ BdetachReturn)

PoolCreate == Called /\ UNCHANGED bvars
                /\ \E e \in PoolEnvChoices, m \in PoolMaxbytes :
                        xfile_create_in(e, m)

NextPool == PoolCreate \/ Destroy \/ TargetAlloc

\* The clients acquire and release partitions of every size, directly and
\* through buffer targets, also where a system call fails.
SpecPool == Init /\ [][NextPool]_vars

FdCreate == Called /\ UNCHANGED bvars
                /\ \E e \in FdEnvChoices, m \in FdMaxbytes :
                        xfile_create_in(e, m)

NextFd == FdCreate \/ Destroy

\* The clients create partitions on systems that lack some or all of the
\* mechanisms that give an unlinked file.
SpecFd == Init /\ [][NextFd]_vars


\* ------------------------------------------------------------------ claims
Live == {x \in XfileIds : xfiles[x].live}
FcbOf(x) == xfiles[x].fcb

\* The byte ranges [pos, pos + maxbytes) of two partitions meet.
Overlap(a, b) ==
    /\ a.partition_pos < b.partition_pos + b.maxbytes
    /\ b.partition_pos < a.partition_pos + a.maxbytes

InCapacity(xf, pos, count) == xf.maxbytes = 0 \/ pos + count <= xf.maxbytes

\* C2: xfile_store and xfile_load on a partition P with pos + count > P.max
\* always fail and transfer no byte: the backing files are the same after the
\* call as before it, and nothing is copied out.
C2_CapacityEnforced ==
    [][(/\ ncalls' # ncalls
        /\ last'.op \in {"store", "load"}
        /\ xfiles[last'.xf].maxbytes > 0
        /\ last'.pos + last'.count > xfiles[last'.xf].maxbytes)
       => (last'.ret # "" /\ last'.out = <<>> /\ fcbs' = fcbs)]_vars

\* What load can return from a partition: the bytes of its range that are
\* not zero, by their offset in the partition, and how far the range can be
\* read.
PartitionView(xf, file) ==
    LET in(p) == /\ p >= xf.partition_pos
                 /\ xf.maxbytes = 0 \/ p < xf.partition_pos + xf.maxbytes
        offs == {p \in DOMAIN file.data : in(p)}
    IN  [bytes |-> {<<p - xf.partition_pos, file.data[p]>> : p \in offs},
         extent |-> IF xf.maxbytes = 0 THEN file.size
                    ELSE Min(file.size, xf.partition_pos + xf.maxbytes)]

ViewOf(x) == PartitionView(xfiles[x], fcbs[FcbOf(x)].file)

\* C3: a store, load or discard call issued against partition A leaves what
\* load returns from every range of every other live partition B unchanged.
C3_NoInterference ==
    [][(/\ ncalls' # ncalls
        /\ last'.op \in {"store", "load", "discard"})
       => \A b \in Live \ {last'.xf} : ViewOf(b)' = ViewOf(b)]_vars

\* C4: xfile_discard(P, pos, len) punches the hole over the backing-file range
\* that starts at P.partition_pos + pos, does not change the file's length,
\* and a load of that range of P returns zeroes afterwards.
C4_DiscardInPartition ==
    [][(ncalls' # ncalls /\ last'.op = "discard")
       => LET xf == xfiles[last'.xf]
              before == fcbs[xf.fcb].file
              after == fcbs'[xf.fcb].file
              ld == LoadResult(xf, after, last'.count, last'.pos)
          IN  /\ after = PunchHole(before, xf.partition_pos + last'.pos,
                                   last'.count)
              /\ after.size = before.size
              /\ (/\ InCapacity(xf, last'.pos, last'.count)
                  /\ xf.partition_pos + last'.pos + last'.count <= before.size)
                    => /\ ld.ret = ""
                       /\ \A i \in 1 .. Len(ld.out) : ld.out[i] = 0]_vars

\* C5: a partition created with maxbytes == 0 starts at offset 0 of a backing
\* file that was created for it, is not on the pool list, and is referenced by
\* no other partition for as long as the partition lives.
C5_PrivateExclusive ==
    \A x \in Live :
        xfiles[x].maxbytes = 0 =>
            /\ xfiles[x].partition_pos = 0
            /\ fcbs[FcbOf(x)].open
            /\ ~InList(fcb_list, FcbOf(x))
            /\ hist[FcbOf(x)] = [NoHist EXCEPT !.acquired = 1]
            /\ \A y \in Live \ {x} : FcbOf(y) # FcbOf(x)

\* A private partition was acquired while a bounded partition is alive and the
\* pool list holds its backing file.
C5_Witness ==
    /\ last.op = "create" /\ last.ret = "" /\ last.count = 0
    /\ xfiles[last.xf].live /\ xfiles[last.xf].maxbytes = 0
    /\ fcb_list # <<>>

\* C6: a shared backing file that n >= 1 bounded partitions were acquired from
\* is closed exactly once, at the n-th release and not before; the reference
\* count is the number of partitions not yet released; and once every bounded
\* partition has been released the pool list is empty.
C6_RefcountCorrect ==
    /\ \A f \in FcbIds :
        hist[f].shared =>
            /\ hist[f].acquired >= 1
            /\ hist[f].released <= hist[f].acquired
            /\ hist[f].closed =
                 IF hist[f].released = hist[f].acquired THEN 1 ELSE 0
            /\ fcbs[f].open <=> hist[f].closed = 0
            /\ fcbs[f].open <=> InList(fcb_list, f)
            /\ fcbs[f].open =>
                 /\ fcbs[f].refcount = hist[f].acquired - hist[f].released
                 /\ fcbs[f].refcount = Cardinality({x \in Live : FcbOf(x) = f})
    /\ \A i \in 1 .. Len(fcb_list) : hist[fcb_list[i]].shared
    /\ {x \in Live : xfiles[x].maxbytes > 0} = {} => fcb_list = <<>>

\* Two partitions were acquired from one shared backing file and both were
\* released: the file was closed by the second release.
C6_Witness ==
    /\ last.op = "destroy"
    /\ fcb_list = <<>>
    /\ \E f \in FcbIds :
        /\ hist[f].shared
        /\ hist[f].acquired = 2 /\ hist[f].released = 2 /\ hist[f].closed = 1

\* The call is a store or discard against partition x that meets the range
\* [pos, pos + count) of x.
Touches(c, x, pos, count) ==
    /\ c.op \in {"store", "discard"}
    /\ c.xf = x
    /\ c.pos < pos + count /\ pos < c.pos + c.count

\* The call stays within the declared maximum of the partition it is issued
\* against.
InContract(c, xfs) ==
    c.op \in {"store", "load", "discard"}
        => InCapacity(xfs[c.xf], c.pos, c.count)

\* C7: a successful xfile_store(P, buf, count, pos) within P.max, followed by
\* a call that is no store or discard on that range of P (and does not destroy
\* P), is followed by an xfile_load(P, out, count, pos) that succeeds with
\* out equal to buf.
C7_RoundTrip ==
    [][(/\ last.op = "store" /\ last.ret = ""
        /\ InCapacity(xfiles[last.xf], last.pos, last.count)
        /\ ncalls' # ncalls
        /\ InContract(last', xfiles)
        /\ ~Touches(last', last.xf, last.pos, last.count)
        /\ ~(last'.op = "destroy" /\ last'.xf = last.xf))
       => LoadResult(xfiles'[last.xf], fcbs'[xfiles'[last.xf].fcb].file,
                     last.count, last.pos)
            = [ret |-> "", out |-> last.buf]]_vars


\* The partition behind buffer target t.
XfileOfBtp(t) == xfiles[btps[t].bt_xfile]

\* C8 (as claimed): for a block address that is not negative,
\* xmbuf_verify_daddr(target, block_address) returns true if and only if
\* block_address is less than maxbytes >> page_shift.
C8_VerifyDaddrPageShift ==
    (last.op = "verify_daddr" /\ last.pos >= 0) =>
        (last.val = 1 <=>
            last.pos < XfileOfBtp(last.xf).maxbytes \div (2 ^ XMBUF_BLOCKSHIFT))

\* C8 (amended): xmbuf_verify_daddr(target, block_address) returns true if and
\* only if block_address is not negative and the 512-byte basic block at that
\* address ends within maxbytes, that is block_address < maxbytes >> BBSHIFT;
\* it returns false for the address equal to maxbytes >> BBSHIFT and for every
\* address when maxbytes is 0.
C8_VerifyDaddr ==
    last.op = "verify_daddr" =>
        LET maxbytes == XfileOfBtp(last.xf).maxbytes
        IN  /\ last.val = 1 <=>
                (last.pos >= 0 /\ (last.pos + 1) * 512 <= maxbytes)
            /\ last.pos * 512 <= maxbytes /\ maxbytes < (last.pos + 1) * 512
                    => last.val = 0
            /\ maxbytes = 0 => last.val = 0

\* The address one past the last basic block of a bounded target was asked
\* for and refused.
C8_Witness ==
    /\ last.op = "verify_daddr" /\ last.val = 0
    /\ XfileOfBtp(last.xf).maxbytes > 0
    /\ last.pos = XfileOfBtp(last.xf).maxbytes \div BBSIZE

\* C9: the backing-file range mapped for a buffer that xmbuf_cache_alloc
\* constructed on a bounded partition P lies inside
\* [P.partition_pos, P.partition_pos + P.maxbytes).
C9_BufferInsidePartition ==
    \A b \in BufIds :
        (bufs[b].live /\ XfileOfBtp(bufs[b].b_target).maxbytes > 0) =>
            LET xf == XfileOfBtp(bufs[b].b_target)
            IN  \A v \in vmas :
                    v.addr = bufs[b].b_addr =>
                        /\ xf.partition_pos <= v.off
                        /\ v.off + v.len <= xf.partition_pos + xf.maxbytes

\* C10: every buffer that xmbuf_cache_alloc constructed is mapped exactly once
\* while it lives; its release (xmbuf_cache_relse, directly, through
\* xmbuf_cache_bulkrelse or through xmbuf_free) calls munmap exactly once, with
\* the address and length that were mapped, and frees the buffer with b_addr
\* NULL; no mapping outlives its buffer and no buffer outlives its target.
C10_MapUnmapBalance ==
    /\ \A b \in BufIds :
        IF bufs[b].live
        THEN /\ blog[b].unmaps = <<>>
             /\ bufs[b].b_addr # 0
             /\ blog[b].map = [addr |-> bufs[b].b_addr,
                               len |-> BBTOB(bufs[b].b_length)]
             /\ Cardinality({v \in vmas : v.addr = bufs[b].b_addr}) = 1
             /\ btps[bufs[b].b_target].live
        ELSE blog[b].map # NoMap =>
                /\ blog[b].unmaps = <<blog[b].map>>
                /\ blog[b].freed_addr = 0
    /\ Cardinality(vmas) = Cardinality({b \in BufIds : bufs[b].live})

\* A target with two live buffers was destroyed: both were unmapped by it.
C10_Witness ==
    /\ last.op = "xmbuf_free"
    /\ \A b \in BufIds :
        /\ ~bufs[b].live
        /\ blog[b].map # NoMap
        /\ blog[b].unmaps = <<blog[b].map>>

\* The transfer of a load or store call is short: pread or pwrite on the range
\* of the call returns fewer bytes than were asked for.
ShortTransfer(c, xf, file) ==
    LET off == ToS64(c.pos + xf.partition_pos)
        n == IF c.op = "load" THEN Pread(file, c.count, off).n
             ELSE Pwrite(file, c.buf, off).n
    IN  0 <= n /\ n < c.count

\* C11: the error that xfile_load and xfile_store fail with is the same,
\* ENOMEM, when pos + count exceeds the partition's declared maximum, when
\* count exceeds INT_MAX, and when the transfer returns fewer bytes than were
\* asked for.  (That the call fails at all beyond the maximum is C2.)
C11_SameErrorENOMEM ==
    [][(/\ ncalls' # ncalls
        /\ last'.op \in {"store", "load"}
        /\ last'.ret # ""
        /\ LET xf == xfiles[last'.xf]
           IN  \/ xf.maxbytes > 0 /\ last'.pos + last'.count > xf.maxbytes
               \/ last'.count > INT_MAX
               \/ ShortTransfer(last', xf, fcbs[xf.fcb].file))
       => last'.ret = ENOMEM]_vars

\* What the clients can observe of the pool: what load returns from every
\* partition, and the length of every backing file.
Observable ==
    [views |-> [x \in XfileIds |-> IF xfiles[x].live THEN <<ViewOf(x)>> ELSE <<>>],
     sizes |-> [f \in FcbIds |-> fcbs[f].file.size]]

\* C12: an xfile_discard call that repeats the previous xfile_discard call
\* (same partition, same range) leaves what the clients observe as it was
\* after the first; and after a discard of a range of partition P, a load of
\* that range of P does not return a byte that the call before, a store
\* against another partition, put there.
C12_DiscardIdempotent ==
    [][(ncalls' # ncalls /\ last'.op = "discard")
       => /\ (/\ last.op = "discard" /\ last.xf = last'.xf
              /\ last.pos = last'.pos /\ last.count = last'.count)
                => Observable' = Observable
          /\ (/\ last.op = "store" /\ last.ret = ""
              /\ last.xf # last'.xf
              /\ FcbOf(last.xf) = FcbOf(last'.xf))
                => LET A == xfiles[last.xf]
                       P == xfiles[last'.xf]
                       ld == LoadResult(P, fcbs'[P.fcb].file, last'.count,
                                        last'.pos)
                   IN  ld.ret = "" =>
                        \A i \in 1 .. last.count, j \in 1 .. last'.count :
                            (/\ A.partition_pos + last.pos + i - 1
                                    = P.partition_pos + last'.pos + j - 1
                             /\ last.buf[i] # 0)
                                => ld.out[j] # last.buf[i]]_vars

\* The pool list holds one backing file, f, which was opened for a first
\* bounded partition of 4 KiB, has that length and has not been used for any
\* other partition.
AfterFirstAcquire(f) ==
    /\ fcb_list = <<f>>
    /\ hist[f] = [NoHist EXCEPT !.acquired = 1, !.shared = TRUE]
    /\ fcbs[f].file.size = PAGE_SIZE
    /\ \E x \in Live : FcbOf(x) = f /\ xfiles[x].maxbytes = PAGE_SIZE

\* C13: from an empty pool, once a first bounded partition of 4 KiB was
\* acquired, a second acquire of 4 KiB (the extension of the first file
\* succeeding) resolves to the same backing file, whose reference count is
\* then 2; and releasing one of these two partitions leaves the backing file
\* open, on the pool list, with reference count 1.
C13_ScenarioB ==
    [][(\A f \in FcbIds :
        /\ (/\ AfterFirstAcquire(f)
            /\ ncalls' # ncalls
            /\ last'.op = "create" /\ last'.count = PAGE_SIZE /\ last'.ret = ""
            /\ Ftruncate(fcbs[f].file, 2 * PAGE_SIZE).ok)
              => /\ xfiles'[last'.xf].fcb = f
                 /\ xfiles'[last'.xf].partition_pos = PAGE_SIZE
                 /\ fcbs'[f].open /\ fcbs'[f].refcount = 2
                 /\ fcb_list' = <<f>>
        /\ (/\ fcb_list = <<f>>
            /\ hist[f] = [NoHist EXCEPT !.acquired = 2, !.shared = TRUE]
            /\ \A x \in Live : FcbOf(x) = f => xfiles[x].maxbytes = PAGE_SIZE
            /\ ncalls' # ncalls
            /\ last'.op = "destroy" /\ xfiles[last'.xf].fcb = f)
              => /\ fcbs'[f].open /\ fcbs'[f].refcount = 1
                 /\ fcb_list' = <<f>>
                 /\ hist'[f].closed = 0)]_vars

\* Two partitions of 4 KiB were acquired from an empty pool and one of them
\* was released: the other still holds the backing file.
C13_Witness ==
    /\ last.op = "destroy"
    /\ \E f \in FcbIds :
        /\ fcb_list = <<f>>
        /\ hist[f] = [NoHist EXCEPT !.acquired = 2, !.released = 1,
                                    !.shared = TRUE]
        /\ fcbs[f].refcount = 1
        /\ \E x \in Live : FcbOf(x) = f /\ xfiles[x].maxbytes = PAGE_SIZE

\* The call of the step is xmbuf_finalize on a buffer that is, or is not,
\* marked stale when the call is made.
FinalizeStep(stale) ==
    /\ ncalls' # ncalls
    /\ last'.op = "finalize"
    /\ (LIBXFS_B_STALE \in bufs'[last'.xf].b_flags) = stale

\* C14: xmbuf_finalize on a buffer marked stale punches a hole over exactly
\* that buffer's backing range in its partition, partition_pos + BBTOB(daddr)
\* for BBTOB(b_length) bytes, which is the range mapped for the buffer; it
\* does not change the backing file's length, touches no other file, does not
\* run the verifier, and returns success.
C14_StaleFinalizePunches ==
    [][FinalizeStep(TRUE)
       => LET bp == bufs[last'.xf]
              xf == XfileOfBtp(bp.b_target)
              pos == xf.partition_pos + BBTOB(bp.bm_bn)
              len == BBTOB(bp.b_length)
          IN  /\ fcbs'[xf.fcb].file = PunchHole(fcbs[xf.fcb].file, pos, len)
              /\ \E v \in vmas : /\ v.addr = bp.b_addr /\ v.fd = xf.fcb
                                 /\ v.off = pos /\ v.len = len
              /\ \A o \in DOMAIN fcbs'[xf.fcb].file.data :
                    o < pos \/ o >= pos + len
              /\ fcbs'[xf.fcb].file.size = fcbs[xf.fcb].file.size
              /\ \A f \in FcbIds \ {xf.fcb} : fcbs'[f] = fcbs[f]
              /\ blog'[last'.xf].verified = blog[last'.xf].verified
              /\ last'.ret = ""]_vars

\* A stale buffer that the client had stored into was finalized: the byte is
\* gone and the page is a hole.
C14_Witness ==
    /\ last.op = "finalize" /\ last.ret = ""
    /\ bufs[last.xf].live /\ LIBXFS_B_STALE \in bufs[last.xf].b_flags
    /\ blog[last.xf].stored /\ blog[last.xf].discarded = 1
    /\ \E v \in vmas :
        /\ v.addr = bufs[last.xf].b_addr
        /\ ByteAt(fcbs[v.fd].file, v.off) = 0
        /\ PageOf(v.off) \notin fcbs[v.fd].file.alloc

\* C15: xmbuf_finalize on a buffer that is not stale runs the verifier of the
\* block type, once, and returns EFSCORRUPTED if and only if the verifier
\* reports a failure address, success otherwise; either way the buffer stays
\* mapped, and its content and the backing files are as they were.
C15_FinalizeVerifies ==
    [][FinalizeStep(FALSE)
       => LET b == last'.xf
          IN  /\ blog'[b].verified = blog[b].verified + 1
              /\ blog'[b].discarded = blog[b].discarded
              /\ last'.ret = EFSCORRUPTED <=> last'.count # 0
              /\ last'.ret = "" <=> last'.count = 0
              /\ bufs' = bufs /\ vmas' = vmas
              /\ \E v \in vmas' : v.addr = bufs'[b].b_addr
              /\ fcbs' = fcbs]_vars

\* A buffer that the client had stored into was finalized, the verifier
\* reported a failure and the byte is still there.
C15_Witness ==
    /\ last.op = "finalize" /\ last.ret = EFSCORRUPTED
    /\ bufs[last.xf].live /\ LIBXFS_B_STALE \notin bufs[last.xf].b_flags
    /\ blog[last.xf].stored /\ blog[last.xf].verified = 1
    /\ \E v \in vmas :
        /\ v.addr = bufs[last.xf].b_addr
        /\ ByteAt(fcbs[v.fd].file, v.off) # 0

\* Buffer b is marked stale and xmbuf_finalize has discarded it.
StaleDiscarded(b) ==
    /\ bufs[b].live
    /\ LIBXFS_B_STALE \in bufs[b].b_flags
    /\ blog[b].discarded >= 1

\* C16: once a buffer has been marked stale and finalized, every step leaves
\* it as it is (stale, mapped, not verified) or unmaps and frees it: the
\* verifier is never run on it, and xmbuf_cache_alloc never hands it out
\* again.
C16_StaleTerminal ==
    [][\A b \in BufIds :
        StaleDiscarded(b) =>
            /\ blog'[b].verified = blog[b].verified
            /\ ~(ncalls' # ncalls /\ last'.op = "cache_alloc" /\ last'.val = b)
            /\ \/ /\ bufs'[b] = bufs[b]
                  /\ blog'[b].map = blog[b].map
                  /\ blog'[b].unmaps = <<>>
                  /\ \E v \in vmas' : v.addr = bufs'[b].b_addr
               \/ /\ ~bufs'[b].live
                  /\ blog'[b].unmaps = <<blog[b].map>>
                  /\ blog'[b].freed_addr = 0
                  /\ ~\E v \in vmas' : v.addr = bufs[b].b_addr]_vars

\* A buffer that was marked stale and discarded by xmbuf_finalize has been
\* released: it was unmapped and freed without ever being verified.
C16_Witness ==
    /\ last.op = "cache_relse"
    /\ ~bufs[last.xf].live
    /\ blog[last.xf].discarded >= 1
    /\ blog[last.xf].verified = 0
    /\ blog[last.xf].unmaps = <<blog[last.xf].map>>

\* The live buffer targets bound to partition x.
TargetsOf(x) == {t \in BtpIds : btps[t].live /\ btps[t].bt_xfile = x}

\* C17: when partitions are made and destroyed by xmbuf_alloc and xmbuf_free
\* only, every live partition has exactly one live buffer target bound to it
\* and every live target is bound to a live partition: a successful
\* xmbuf_alloc returns a target whose partition no other target references, a
\* failed one leaves neither, and xmbuf_free destroys both.
C17_OneTargetPerPartition ==
    /\ \A x \in XfileIds :
        Cardinality(TargetsOf(x)) = IF xfiles[x].live THEN 1 ELSE 0
    /\ \A t \in BtpIds : btps[t].live => xfiles[btps[t].bt_xfile].live
    /\ (last.op = "xmbuf_alloc" /\ last.ret = "") =>
            /\ btps[last.xf].live
            /\ TargetsOf(btps[last.xf].bt_xfile) = {last.xf}
    /\ last.op = "xmbuf_free" =>
            /\ ~btps[last.xf].live
            /\ Cardinality(Live) = Cardinality({t \in BtpIds : btps[t].live})

\* A target was freed and another one allocated after it, next to a target
\* that lived all along: two targets, two partitions.
C17_Witness ==
    /\ last.op = "xmbuf_alloc" /\ last.ret = ""
    /\ Cardinality({t \in BtpIds : btps[t].live}) = 2
    /\ Cardinality(Live) = 2
    /\ \E f \in FcbIds : hist[f].released >= 1

\* The bytes of the allocated pages S of the file that lie below its length
\* and within [lo, hi).
RECURSIVE ResidentIn(_, _, _, _)
ResidentIn(file, S, lo, hi) ==
    IF S = {} THEN 0
    ELSE LET p == CHOOSE q \in S : TRUE
             from == Max(lo, p * PAGE_SIZE)
             to == Min(Min(hi, file.size), (p + 1) * PAGE_SIZE)
         IN  Max(0, to - from) + ResidentIn(file, S \ {p}, lo, hi)

\* The resident bytes of the backing file within the declared range of a
\* bounded partition: the bytes of allocated pages, up to the end of the file.
Resident(xf, file) ==
    ResidentIn(file, file.alloc, xf.partition_pos,
               xf.partition_pos + xf.maxbytes)

\* What xfile_bytes would return for partition x.
BytesOf(x) == XfileBytes(xfiles[x], fcbs[FcbOf(x)].file)

\* xfile_bytes on a bounded partition returns the resident bytes within the
\* partition's range, never more than maxbytes.
BytesAreResident ==
    (last.op = "bytes" /\ xfiles[last.xf].maxbytes > 0) =>
        /\ last.val = Resident(xfiles[last.xf], fcbs[FcbOf(last.xf)].file)
        /\ last.val <= xfiles[last.xf].maxbytes

\* C18: xfile_bytes on a bounded partition P returns the number of resident
\* bytes of the backing file within [P.partition_pos, P.partition_pos +
\* P.maxbytes), never more than P.maxbytes, and a store into or a discard
\* from another partition of the same backing file does not change it.
C18_PartitionBytes ==
    /\ []BytesAreResident
    /\ [][(/\ ncalls' # ncalls
           /\ last'.op \in {"store", "discard"})
          => \A b \in Live \ {last'.xf} :
                (xfiles[b].maxbytes > 0 /\ FcbOf(b) = FcbOf(last'.xf))
                    => BytesOf(b)' = BytesOf(b)]_vars

PartitionsOn(f) == {x \in Live : FcbOf(x) = f}

\* C20: after any sequence of xfile_create and xfile_destroy calls, a backing
\* file is on the pool list if and only if it is open and was created for a
\* bounded partition; every open backing file, on the list or not, has a
\* reference count of at least 1 that equals the number of live partitions
\* referencing it; no file is on the list twice.
C20_PoolListInvariant ==
    /\ \A f \in FcbIds :
        /\ InList(fcb_list, f) <=>
                (fcbs[f].open /\ \E x \in PartitionsOn(f) : xfiles[x].maxbytes > 0)
        /\ InList(fcb_list, f) <=> (fcbs[f].open /\ hist[f].shared)
        /\ fcbs[f].open =>
                /\ fcbs[f].refcount >= 1
                /\ fcbs[f].refcount = Cardinality(PartitionsOn(f))
        /\ InList(fcb_list, f) =>
                \A x \in PartitionsOn(f) : xfiles[x].maxbytes > 0
    /\ \A i, j \in 1 .. Len(fcb_list) : fcb_list[i] = fcb_list[j] => i = j
    /\ \A x \in Live : fcbs[FcbOf(x)].open

\* The last bounded partition was released while a private partition lives:
\* the shared file was destroyed and taken off the list, the private file is
\* open and was never on it.
C20_Witness ==
    /\ last.op = "destroy"
    /\ fcb_list = <<>>
    /\ \E f \in FcbIds : hist[f].shared /\ hist[f].closed = 1 /\ ~fcbs[f].open
    /\ \E x \in Live : xfiles[x].maxbytes = 0 /\ fcbs[FcbOf(x)].refcount = 1


\* Partition x is released by this step and its backing file stays open.
ReleaseKeepsFile(x) ==
    /\ last'.op = "destroy" /\ last'.xf = x
    /\ xfiles[x].live /\ fcbs'[FcbOf(x)].open

\* The partition's range, to the end of its last page, ends at the file's
\* length.
IsTail(x) ==
    fcbs[FcbOf(x)].file.size =
        xfiles[x].partition_pos + roundup_64(xfiles[x].maxbytes, PAGE_SIZE)

\* C21: when a bounded partition is released, the backing file stays
\* referenced and the partition's range ends at the file's length, the file
\* is shrunk to the partition's start offset, for every declared maxbytes,
\* multiples of the page size or not.
C21_TailShrunk ==
    [][\A x \in XfileIds :
        (/\ ReleaseKeepsFile(x)
         /\ xfiles[x].maxbytes > 0
         /\ IsTail(x))
        => fcbs'[FcbOf(x)].file.size = xfiles[x].partition_pos]_vars

\* This step is a bounded xfile_create that found a free partition object.
BoundedCreate ==
    /\ last'.op = "create" /\ last'.count > 0
    /\ \E x \in XfileIds : ~xfiles[x].live

\* Pool member f can take a partition of the rounded size: its fstat works and
\* the file can be extended by that much from its page-rounded length.
Extends(f, env, rounded) ==
    /\ f \notin env.badstat
    /\ Ftruncate(fcbs[f].file,
                 ToS64(roundup_64(fcbs[f].file.size, PAGE_SIZE) + rounded)).ok

\* The list positions of the pool members that can take the partition.
Fits(env, rounded) ==
    {i \in 1 .. Len(fcb_list) : Extends(fcb_list[i], env, rounded)}

\* The call took pool member f: the partition starts at the page-rounded old
\* length, the file is extended and referenced once more, and nothing else in
\* the pool changes.
TookMember(f, rounded) ==
    /\ last'.ret = ""
    /\ xfiles'[last'.xf].fcb = f
    /\ xfiles'[last'.xf].partition_pos =
            roundup_64(fcbs[f].file.size, PAGE_SIZE)
    /\ fcbs'[f].file.size = xfiles'[last'.xf].partition_pos + rounded
    /\ fcbs'[f].refcount = fcbs[f].refcount + 1
    /\ fcb_list' = fcb_list
    /\ \A g \in FcbIds \ {f} : fcbs'[g] = fcbs[g]

\* The call made a new backing file: of the rounded size, with the partition
\* at offset 0, appended to the pool list, the members of the pool unchanged.
MadeNewFile(rounded) ==
    LET f == xfiles'[last'.xf].fcb
    IN  /\ ~fcbs[f].open /\ fcbs'[f].open
        /\ fcbs'[f].refcount = 1
        /\ fcbs'[f].file.size = rounded
        /\ xfiles'[last'.xf].partition_pos = 0
        /\ fcb_list' = Append(fcb_list, f)
        /\ \A g \in FcbIds \ {f} : fcbs'[g] = fcbs[g]

\* C22: a bounded acquire takes the first member of the pool list whose fstat
\* and extension both succeed and leaves every other member unchanged; it
\* makes a new backing file, extended to the rounded size, with the partition
\* at offset 0, appended to the list, only when no member can be extended.
C22_FirstFit ==
    [][BoundedCreate =>
        LET rounded == roundup_64(last'.count, PAGE_SIZE)
            fits == Fits(last'.env, rounded)
        IN  IF fits # {}
            THEN TookMember(fcb_list[CHOOSE i \in fits :
                                        \A k \in fits : i <= k], rounded)
            ELSE last'.ret = "" => MadeNewFile(rounded)]_vars

\* A bounded acquire passed over the first member of the list, which could not
\* be extended, and took the second, which other partitions use already.
C22_Witness ==
    /\ last.op = "create" /\ last.ret = "" /\ last.count > 0
    /\ Len(fcb_list) >= 2
    /\ FcbOf(last.xf) = fcb_list[2]
    /\ fcbs[fcb_list[2]].refcount >= 2

\* C23: a bounded acquire that succeeds has carved a range at least as long as
\* the declared maxbytes: the page-rounded size and start + size are computed
\* without wrap-around, for every maxbytes the type can hold.
C23_ExtentCoversMaxbytes ==
    [][(BoundedCreate /\ last'.ret = "") =>
        LET x == last'.xf
        IN  fcbs'[xfiles'[x].fcb].file.size - xfiles'[x].partition_pos
                >= ToU64(xfiles'[x].maxbytes)]_vars

\* This step is an xfile_create that has to open a backing file: the partition
\* is private, or no member of the pool can take it.
OpensFile ==
    /\ last'.op = "create"
    /\ \E x \in XfileIds : ~xfiles[x].live
    /\ \/ last'.count = 0
       \/ Fits(last'.env, roundup_64(last'.count, PAGE_SIZE)) = {}

\* The mechanism the stated order picks among those that work.
FirstWorking(avail) ==
    IF "memfd_noexec_seal" \in avail THEN "memfd_noexec_seal"
    ELSE IF "memfd" \in avail THEN "memfd"
    ELSE IF "tmpfile_dev_shm" \in avail THEN "tmpfile_dev_shm"
    ELSE IF "tmpfile_tmp" \in avail THEN "tmpfile_tmp"
    ELSE "mkostemp"

\* C28: the backing file comes from the first mechanism that works, in the
\* order memfd with the no-exec seal, memfd without it, O_TMPFILE in /dev/shm,
\* O_TMPFILE in /tmp, mkostemp; the creation fails if and only if every
\* mechanism fails or the control block cannot be allocated, and then it
\* returns an error and leaves no descriptor or control block behind.
C28_FallbackOrder ==
    [][OpensFile =>
        LET env == last'.env
            fails == env.avail = {} \/ ~env.malloc
        IN  /\ (last'.ret # "") <=> fails
            /\ ~fails => last'.out = <<FirstWorking(env.avail)>>
            /\ fails => (fcbs' = fcbs /\ fcb_list' = fcb_list
                            /\ xfiles' = xfiles /\ last'.xf = 0)]_vars

\* A backing file was opened by the last mechanism of the order, in a pool
\* that was used before.
C28_Witness ==
    /\ last.op = "create" /\ last.ret = ""
    /\ last.out = <<"mkostemp">>
    /\ fcbs[FcbOf(last.xf)].open
    /\ ncalls >= 2

\* This step is an xfile_create or an xmbuf_alloc that returns an error.
FailedCreation ==
    /\ last'.op \in {"create", "xmbuf_alloc"}
    /\ last'.ret # ""

\* C29: a failed xfile_create (no backing file, or its first extension fails)
\* and an xmbuf_alloc that fails after it acquired the partition return the
\* error and no partition or target, and leave the membership of the pool
\* list and every backing file's reference count as they were.
C29_FailedCreationNoChange ==
    [][FailedCreation =>
        /\ last'.xf = 0
        /\ xfiles' = xfiles
        /\ btps' = btps
        /\ fcb_list' = fcb_list
        /\ \A f \in FcbIds : /\ fcbs'[f].open = fcbs[f].open
                             /\ fcbs'[f].refcount = fcbs[f].refcount]_vars

\* An xmbuf_alloc failed although a target, a partition and a range of a pool
\* member were to be had: the partition was acquired and given back.
C29_Witness ==
    /\ last.op = "xmbuf_alloc" /\ last.ret # ""
    /\ \E t \in BtpIds : ~btps[t].live
    /\ \E x \in XfileIds : ~xfiles[x].live
    /\ \E f \in FcbIds : /\ InList(fcb_list, f)
                         /\ hist[f].released > 0
                         /\ fcbs[f].refcount > 0

\* The partitions whose xfile_destroy has given the reference back already.
GivenBack ==
    {thr[t].x : t \in {u \in Threads :
        thr[u].pc \in {"rele_fstat", "rele_ftruncate", "rele_unlock",
                       "destroy_ret"}}}

\* The ranges that are held: by the bounded partitions, and by the threads
\* whose xfile_create has taken its range and not yet returned.
Holdings ==
    {[who |-> <<"xfile", x>>, f |-> xfiles[x].fcb,
      pos |-> xfiles[x].partition_pos] :
        x \in {y \in XfileIds \ GivenBack :
                    xfiles[y].live /\ xfiles[y].maxbytes > 0}}
    \cup
    {[who |-> <<"thread", t>>, f |-> thr[t].f, pos |-> thr[t].pos] :
        t \in {u \in Threads : /\ thr[u].pc \in {"find_unlock", "create_ret"}
                               /\ thr[u].maxbytes > 0 /\ thr[u].err = ""}}

\* The ranges held in backing file f.
Counting(f) == {h \in Holdings : h.f = f}

\* No two acquires hold the same start offset in the same backing file.
NoSharedOffset ==
    \A g, h \in Holdings : (g.f = h.f /\ g.pos = h.pos) => g = h

\* No update of a reference count is lost: the count of every member of the
\* pool is the number of ranges held in it.
NoLostUpdate ==
    \A f \in FcbIds :
        InList(fcb_list, f) => fcbs[f].refcount = Cardinality(Counting(f))

RelePcs == {"rele_close", "rele_lock", "dec_read", "dec_write", "rele_fstat",
            "rele_ftruncate", "rele_unlock", "destroy_ret"}

\* C30: a release whose fstat or ftruncate of the tail shrink fails completes
\* like any other: xfile_destroy returns, with the reference count lowered
\* exactly once, the mutex not held by the thread, and the partition freed.
C30_ShrinkFailureTolerated ==
    /\ [][\A t \in Threads :
            (thr[t].pc = "destroy_ret" /\ thr'[t].pc = "idle") =>
                /\ fcb_mutex' # t
                /\ ~xfiles'[thr[t].x].live
                /\ last'.op = "destroy" /\ last'.ret = ""
                /\ thr[t].decs <= 1
                /\ thr[t].fail # "" => thr[t].decs = 1]_vars
    /\ \A t \in Threads : (thr[t].pc \in RelePcs) ~> (thr[t].pc = "idle")

\* An xfile_destroy has returned whose ftruncate of the tail failed.
C30_Witness ==
    /\ last.op = "destroy" /\ last.out = <<"ftruncate">>
    /\ ~xfiles[last.xf].live
    /\ fcb_mutex = 0

\* C25: the mapped length of every buffer, BBTOB(b_length), is the page size,
\* whatever length the key of the request carries.
C25_OnePageBuffers ==
    \A b \in BufIds : bufs[b].live => BBTOB(bufs[b].b_length) = PAGE_SIZE

\* Every buffer the cache has is mapped, free of error, up to date and
\* unchecked.
MappedAndValid ==
    \A b \in BufIds :
        bufs[b].live =>
            /\ bufs[b].b_addr # 0
            /\ bufs[b].b_error = 0
            /\ {LIBXFS_B_UPTODATE, LIBXFS_B_UNCHECKED} \subseteq bufs[b].b_flags

\* C26: there is no buffer that is valid but not mapped: when the mapping
\* fails xmbuf_cache_alloc frees the buffer and returns no node, and every
\* buffer it returns has a mapped b_addr, b_error 0 and the up-to-date and
\* unchecked flags, until it is released.
C26_NoUnmappedBuffer ==
    /\ []MappedAndValid
    /\ [][(last'.op = "cache_alloc" /\ last'.ret = "NULL") =>
            (last'.val = 0 /\ bufs' = bufs /\ vmas' = vmas)]_vars

\* A construct has failed on the mapping, a buffer object being free, while
\* the cache holds a buffer that was constructed before.
C26_Witness ==
    /\ last.op = "cache_alloc" /\ last.ret = "NULL"
    /\ \E b \in BufIds : ~bufs[b].live
    /\ \E b \in BufIds : bufs[b].live

\* C27: xmbuf_trans_bdetach always returns, and when it does no log item is
\* linked to the buffer and the item it started with has its dirty, ordered
\* and stale flags and its XFS_LI_DIRTY bit cleared, however many items were
\* linked.
C27_BdetachTerminates ==
    /\ (bli.pc = "loop") ~> (bli.pc = "idle")
    /\ [][(bli.pc = "loop" /\ bli'.pc = "idle") =>
            /\ bli'.items = <<>>
            /\ bli'.first.bli_flags
                \cap {XFS_BLI_DIRTY, XFS_BLI_ORDERED, XFS_BLI_STALE} = {}
            /\ XFS_LI_DIRTY \notin bli'.first.li_flags]_vars

\* xmbuf_trans_bdetach has returned from a buffer whose first item was dirty
\* and logged and had more items behind it.
C27_Witness ==
    /\ last.op = "bdetach" /\ last.count >= 2
    /\ bli.pc = "idle" /\ bli.items = <<>>
    /\ bli.first = [bli_flags |-> {XFS_BLI_LOGGED}, li_flags |-> {}]

\* ------------------------------------------------------------------- C31
\* The step is a call of xmbuf_cache_bulkrelse; last'.buf is the list it was
\* given.
BulkRelseStep == ncalls' # ncalls /\ last'.op = "cache_bulkrelse"

\* Buffer b was let go by the step: unmapped once more, with the address and
\* length of its mapping, then freed.
ReleasedOnce(b) ==
    /\ bufs[b].live /\ ~bufs'[b].live
    /\ blog'[b].unmaps = Append(blog[b].unmaps, blog[b].map)
    /\ Len(blog'[b].unmaps) = 1
    /\ blog'[b].freed_addr = 0
    /\ \A v \in vmas' : v.addr # bufs[b].b_addr

\* C31: xmbuf_cache_bulkrelse releases every buffer of the list it is given
\* exactly once (unmap, then free), leaves every other buffer alone, and
\* returns the number of buffers that were on the list, 0 for an empty list.
C31_BulkRelseCounts ==
    [][BulkRelseStep =>
        /\ last'.val = Len(last'.buf)
        /\ \A b \in BufIds :
            IF InList(last'.buf, b) THEN ReleasedOnce(b)
            ELSE bufs'[b] = bufs[b] /\ blog'[b] = blog[b]]_vars

\* A list of two buffers was released and 2 returned.
C31_Witness ==
    /\ last.op = "cache_bulkrelse"
    /\ Len(last.buf) = 2 /\ last.val = 2
    /\ \A b \in BufIds : InList(last.buf, b) =>
            ~bufs[b].live /\ Len(blog[b].unmaps) = 1

\* An empty list was given and 0 returned.
C31_EmptyList ==
    last.op = "cache_bulkrelse" /\ last.buf = <<>> /\ last.val = 0

\* ------------------------------------------------------------------- C32
\* The end of partition x's extent: its start plus its declared maximum rounded
\* up to whole pages.
ExtentEnd(x) ==
    xfiles[x].partition_pos + roundup_64(xfiles[x].maxbytes, PAGE_SIZE)

\* C32: the tail shrink of a release never cuts into a live partition: the
\* backing file's length is at least start + page-rounded maxbytes of every
\* live bounded partition that references it.
C32_LivePartitionsBacked ==
    \A x \in XfileIds :
        (xfiles[x].live /\ xfiles[x].maxbytes > 0) =>
            fcbs[FcbOf(x)].file.size >= ExtentEnd(x)

\* The last call released the tail partition of a file and the file was cut
\* back to the end of a partition that is still live: the file had been
\* extended past it for the second acquire.
C32_Witness ==
    /\ last.op = "destroy"
    /\ \E x \in XfileIds :
        /\ xfiles[x].live /\ xfiles[x].maxbytes > 0
        /\ hist[FcbOf(x)].acquired >= 2 /\ hist[FcbOf(x)].released >= 1
        /\ fcbs[FcbOf(x)].file.size = ExtentEnd(x)
        /\ \A y \in XfileIds :
            (xfiles[y].live /\ FcbOf(y) = FcbOf(x)) => y = x

\* ------------------------------------------------------------------- C33
\* The places of xfile_fcb_find where thread t holds the mutex.
FindHeldPcs == {"scan", "extend", "ref_read", "ref_write", "new",
                "find_irele", "find_unlock"}

\* C33: no xfile_fcb_find tries to lock the pool mutex while it holds it.
\* Where the new file cannot be extended, xfile_fcb_irele is called with the
\* mutex held and takes the branch without a lock, the file not being on the
\* pool list; and the mutex is unlocked exactly once before xfile_create
\* returns from a bounded acquire, which leaves without holding it.
C33_NoRelock ==
    \A t \in Threads :
        /\ thr[t].pc # "find_relock"
        /\ thr[t].pc \in {"find_lock", "rele_lock"} => fcb_mutex # t
        /\ thr[t].pc \in FindHeldPcs =>
                fcb_mutex = t /\ thr[t].unlocks = 0
        /\ thr[t].pc = "find_irele" => ~InList(fcb_list, thr[t].f)
        /\ thr[t].pc = "create_ret" =>
                /\ fcb_mutex # t
                /\ thr[t].unlocks = IF thr[t].maxbytes = 0 THEN 0 ELSE 1

\* An acquire is about to return the error of the ftruncate that could not
\* extend its new file: the file was closed by xfile_fcb_irele, and the mutex
\* was unlocked once.
C33_Witness ==
    \E t \in Threads :
        /\ thr[t].pc = "create_ret" /\ thr[t].err = EFBIG
        /\ thr[t].f # 0 /\ hist[thr[t].f].released >= 1
        /\ hist[thr[t].f].closed >= 1
        /\ thr[t].unlocks = 1 /\ fcb_mutex # t

\* ------------------------------------------------------------------- C34
\* Buffer b is mapped onto a partition that is still held: its target's
\* xfile is live and the backing file of that is open.
OnHeldPartition(b) ==
    LET x == btps[bufs[b].b_target].bt_xfile
    IN  /\ btps[bufs[b].b_target].live
        /\ xfiles[x].live
        /\ fcbs[xfiles[x].fcb].open

\* C34: xmbuf_free destroys the cache, unmapping and freeing every buffer of
\* the target, before it releases the partition: at no point is a buffer, or
\* a mapping, left on a partition that has been released or a file that has
\* been closed, and the partition goes only when the target has no buffer.
C34_CacheBeforePartition ==
    /\ \A b \in BufIds : bufs[b].live => OnHeldPartition(b)
    /\ \A v \in vmas : fcbs[v.fd].open
    /\ thr[Caller].pc = "free_ret" =>
            /\ ~xfiles[thr[Caller].x].live
            /\ \A b \in BufIds :
                    ~(bufs[b].live /\ bufs[b].b_target = thr[Caller].i)

\* xmbuf_free has released the partition of a target that had two buffers,
\* both unmapped and freed already, and the backing file was closed with it.
C34_Witness ==
    /\ thr[Caller].pc = "free_ret"
    /\ ~xfiles[thr[Caller].x].live
    /\ vmas = {}
    /\ \A b \in BufIds :
        /\ ~bufs[b].live
        /\ blog[b].map # NoMap /\ blog[b].unmaps = <<blog[b].map>>
    /\ \A f \in FcbIds : ~fcbs[f].open

\* ------------------------------------------------------------------- C35
\* C35: the start offset of every bounded partition is a multiple of the page
\* size, whatever acquires, releases with tail shrink and stores came before,
\* those stores included that left the file's length off a page boundary.
C35_PartitionsPageAligned ==
    \A x \in XfileIds :
        (xfiles[x].live /\ xfiles[x].maxbytes > 0) =>
            /\ xfiles[x].partition_pos >= 0
            /\ xfiles[x].partition_pos % PAGE_SIZE = 0

\* The third call acquired a partition at the start of the third page of a
\* file whose only other partition has 100 bytes: the call between them was a
\* store that left the file's length inside the second page.
C35_Witness ==
    /\ ncalls = 3 /\ last.op = "create" /\ last.ret = ""
    /\ xfiles[last.xf].partition_pos = 2 * PAGE_SIZE
    /\ \E y \in XfileIds :
        /\ y # last.xf /\ xfiles[y].live /\ xfiles[y].maxbytes = 100
        /\ FcbOf(y) = FcbOf(last.xf)
        /\ PAGE_SIZE + 1 \in DOMAIN fcbs[FcbOf(y)].file.data

\* ------------------------------------------------------------------- C36
\* n is 2 ^ k for some k.
PowerOfTwo(n) == \E k \in 0 .. MaxPageShift : n = 2 ^ k

\* C36: after xmbuf_libinit, XMBUF_BLOCKSIZE is a power of two, namely the
\* page size that sysconf reported, or 4096 when that is negative or no power
\* of two, and 1 << XMBUF_BLOCKSHIFT == XMBUF_BLOCKSIZE.
C36_BlockSizePowerOfTwo ==
    last.op = "xmbuf_libinit" =>
        LET size == last.out[1]
            shift == last.out[2]
        IN  /\ PowerOfTwo(size)
            /\ size = IF last.pos < 0 \/ ~PowerOfTwo(last.pos) THEN 4096
                      ELSE last.pos
            /\ shift >= 0 /\ 2 ^ shift = size

\* The library was initialized on a system with pages of 64 KiB.
C36_Witness ==
    /\ last.op = "xmbuf_libinit" /\ last.pos = 65536
    /\ last.out = <<65536, 16>>

\* The library was initialized where sysconf reported 12288, which is no
\* power of two, and fell back to 4096.
C36_Fallback ==
    /\ last.op = "xmbuf_libinit" /\ last.pos = 3 * 4096
    /\ last.out = <<4096, XMBUF_BLOCKSHIFT>>
====
